---- MODULE Spec2Model ----
(***************************************************************************)
(* The six-pass matching engine of src/src/main/matcher.ts (class          *)
(* GLMatcher) as a state machine.  One step of the machine is one          *)
(* iteration of a pass's loop over the bank list, the exit of such a loop, *)
(* or the construction of the result at the end of match().                *)
(*                                                                         *)
(* Amounts are held in cents: ingestion rounds every amount to two         *)
(* decimals, so each amount is the double nearest to cents/100.  Equality  *)
(* of two such doubles is equality of the cents.  A comparison of a        *)
(* computed sum or difference against a threshold is exact when the cents  *)
(* lie strictly on one side of the threshold; when they lie exactly on it  *)
(* the outcome depends on the binary rounding of the operands and is       *)
(* modelled as a choice between both outcomes (FloatLess, FloatAtMost):    *)
(* 1.00 + 2.00 differs from 3.01 by less than 0.01 in doubles, 6000.00 +   *)
(* 4000.01 differs from 10000.00 by more.                                  *)
(*                                                                         *)
(* Dates are timestamps counted in hours.  The local clock reads the       *)
(* timestamp in standard time and one hour more in summer time, which      *)
(* begins at 02:00 of one day and ends at 02:00 of a later day.            *)
(*                                                                         *)
(* The helper functions of the class are also run on their own: call holds *)
(* the function and its arguments, value what it returned.                 *)
(*                                                                         *)
(* The window (src/renderer/app.js) and the handlers of the main process   *)
(* (src/main/index.ts) are a second machine: one step is a click handler   *)
(* up to its await, a handler of the main process, or the continuation of  *)
(* a click handler after its await.                                        *)
(*                                                                         *)
(* The caller of the matcher holds the lists it built the matcher from and *)
(* the results that match() returned to it.  When there are two matchers,  *)
(* the fields of the one whose code runs are the matcher variables and the *)
(* other one is kept in others.                                            *)
(***************************************************************************)
EXTENDS Integers, Sequences, FiniteSets, TLC

VARIABLES
    bankTransactions,   \* GLMatcher.bankTransactions: records with a matched flag
    qbTransactions,     \* GLMatcher.qbTransactions: records with a matched flag
    matched,            \* GLMatcher.matched: the list of MatchedPair
    additionalMappings, \* GLMatcher.additionalMappings: ordered (key, variants) entries
    pass,               \* position in match(): 1..6 the running pass, 7 before the return, 8 returned
    i,                  \* the loop variable i of the running pass (1-based)
    result,             \* the ReconciliationResult returned by match(), NoResult before
    scan,               \* the locals of the last loop iteration (candidates, what was committed)
    call,               \* a call of one helper function: its name and arguments, NoCall if none
    value,              \* what the called helper returned, NoValue before
    renderer,           \* the state of src/renderer/app.js and of the buttons it sets
    ipc,                \* the invocations of the main process that have not been answered to the end
    lastResults,        \* lastResults of src/main/index.ts
    caller,             \* what the caller of the matcher holds: the lists it passed, the results it got
    others              \* the other GLMatcher instances, none of whose steps is running

\* The variables of the application around the matcher.
appVars == <<renderer, ipc, lastResults>>

\* The variables around the running matcher.
callerVars == <<caller, others>>

vars == <<bankTransactions, qbTransactions, matched, additionalMappings, pass, i, result, scan,
          call, value, appVars, callerVars>>

(***************************************************************************)
(* Bounds of the model.                                                    *)
(***************************************************************************)
MaxBank == 2
MaxQB == 3

(***************************************************************************)
(* Arithmetic helpers.                                                     *)
(***************************************************************************)
Abs(x) == IF x < 0 THEN -x ELSE x

\* The element of a one-element set.  Only({e(x) : x \in {v}}) is e of the
\* value of v: v is evaluated once, as the initializer of a `const x = v`.
Only(S) == CHOOSE r \in S : TRUE

HoursPerDay == 24

\* The outcomes of `x < t` for a computed double x whose decimal value is d
\* cents and a threshold of t cents: at d = t the double lies just below or
\* just above the threshold.
FloatLess(d, t) == IF d < t THEN {TRUE} ELSE IF d = t THEN BOOLEAN ELSE {FALSE}

\* The outcomes of `x <= t`, likewise.
FloatAtMost(d, t) == FloatLess(d, t)

\* The elements of a set of indices as a sequence in increasing order
\* (Array.prototype.filter keeps the order of the list).
RECURSIVE Ascending(_, _)
Ascending(S, n) ==
    IF n = 0 THEN <<>>
    ELSE IF n \in S THEN Append(Ascending(S, n - 1), n)
    ELSE Ascending(S, n - 1)

(***************************************************************************)
(* Candidate-filter helpers.                                               *)
(***************************************************************************)
getQBAmount(qb, bankType) == IF bankType = "Deposit" THEN qb.debit ELSE qb.credit

\* The days on which summer time begins and ends in the local time zone.
SummerTimeBegins == 30
SummerTimeEnds == 40

\* The hours that the local clock is ahead of standard time at a timestamp:
\* the clock goes from 02:00 to 03:00 on the first day and from 02:00 back
\* to 01:00 on the last.
ClockShift(date) ==
    IF /\ date >= SummerTimeBegins * HoursPerDay + 2
       /\ date < SummerTimeEnds * HoursPerDay + 1
    THEN 1 ELSE 0

\* The local calendar day of a timestamp (getFullYear, getMonth, getDate).
CalendarDay(date) == (date + ClockShift(date)) \div HoursPerDay

isSameDay(date1, date2) == CalendarDay(date1) = CalendarDay(date2)

\* A window that is open towards later dates.
isWithinDaysSigned(date1, date2, days) == date1 - date2 <= days * HoursPerDay

isWithinDays(date1, date2, days) == Abs(date1 - date2) <= days * HoursPerDay

\* Deposit and withdrawal allow-lists of ledger types.
typesAreCompatible(bankType, qbType) ==
    IF bankType = "Deposit"
    THEN qbType \in {"Deposit", "Payment", "Sales Receipt", "Invoice Payment"}
    ELSE IF bankType = "Withdrawal"
    THEN qbType \in {"Check", "Bill Pmt -Check", "Transfer", "Expense", "Credit Card"}
    ELSE FALSE

(***************************************************************************)
(* Strings.  A string is a TLA+ string; its k-th character is              *)
(* Slice(s, k, k).                                                        *)
(***************************************************************************)
LowerCase == "abcdefghijklmnopqrstuvwxyz"
UpperCase == "ABCDEFGHIJKLMNOPQRSTUVWXYZ"

\* String.prototype.substring for 1-based inclusive bounds, clipped to the string.
Slice(s, a, b) ==
    IF a > Len(s) \/ b < a \/ b < 1 THEN ""
    ELSE SubSeq(s, IF a < 1 THEN 1 ELSE a, IF b > Len(s) THEN Len(s) ELSE b)

\* String.prototype.charAt, 1-based: "" outside the string.
CharAt(s, k) == Slice(s, k, k)

IsSpace(c) == c = " "

IsUpperLetter(c) == \E k \in 1..Len(UpperCase) : CharAt(UpperCase, k) = c

UpperChar(c) ==
    IF \E k \in 1..Len(LowerCase) : CharAt(LowerCase, k) = c
    THEN CharAt(UpperCase, CHOOSE k \in 1..Len(LowerCase) : CharAt(LowerCase, k) = c)
    ELSE c

\* String.prototype.toUpperCase
RECURSIVE toUpperCase(_)
toUpperCase(s) ==
    IF s = "" THEN "" ELSE UpperChar(CharAt(s, 1)) \o toUpperCase(Tail(s))

\* String.prototype.trim
trim(s) ==
    LET solid == {k \in 1..Len(s) : ~IsSpace(CharAt(s, k))}
    IN  IF solid = {} THEN ""
        ELSE Slice(s, CHOOSE a \in solid : \A k \in solid : a <= k,
                       CHOOSE b \in solid : \A k \in solid : k <= b)

\* String.prototype.indexOf, 1-based; 0 when the pattern does not occur.
indexOf(s, pattern) ==
    LET hits == {k \in 1..(Len(s) - Len(pattern) + 1) :
                    Slice(s, k, k + Len(pattern) - 1) = pattern}
    IN  IF hits = {} THEN 0 ELSE CHOOSE k \in hits : \A h \in hits : k <= h

\* String.prototype.includes
includes(s, pattern) == indexOf(s, pattern) # 0

\* String.prototype.replace with a string pattern and '' as replacement: the
\* first occurrence is removed.
replace(s, pattern) ==
    LET k == indexOf(s, pattern)
    IN  IF k = 0 THEN s
        ELSE Slice(s, 1, k - 1) \o Slice(s, k + Len(pattern), Len(s))

\* s.split(/\s+/)[0]: the characters before the first whitespace.
firstWord(s) ==
    LET blanks == {k \in 1..Len(s) : IsSpace(CharAt(s, k))}
    IN  IF blanks = {} THEN s
        ELSE Slice(s, 1, (CHOOSE k \in blanks : \A h \in blanks : k <= h) - 1)

(***************************************************************************)
(* Similarity scorer.                                                      *)
(***************************************************************************)
\* A minimum that leaves out its third argument.
Min3OfTwo(a, b, c) == IF a <= b THEN a ELSE b

Min3(a, b, c) == IF a <= b /\ a <= c THEN a ELSE IF b <= c THEN b ELSE c

\* Row i of the matrix (i >= 1) from row i - 1: row[j + 1] is matrix[i][j].
\* c is str2.charAt(i - 1).
RECURSIVE LevenshteinRow(_, _, _, _)
LevenshteinRow(prev, str1, c, row) ==
    LET j == Len(row)
    IN  IF j > Len(str1) THEN row
        ELSE Only({LevenshteinRow(prev, str1, c, next) :
                    next \in {Append(row,
                        IF c = CharAt(str1, j)
                        THEN prev[j]
                        ELSE Min3(prev[j] + 1, row[j] + 1, prev[j + 1] + 1))}})

\* The rows of the matrix, from row 0 = [0, 1, .., str1.length] down to row n.
RECURSIVE LevenshteinRows(_, _, _)
LevenshteinRows(str1, str2, n) ==
    IF n = 0 THEN [j \in 1..(Len(str1) + 1) |-> j - 1]
    ELSE Only({LevenshteinRow(prev, str1, CharAt(str2, n), <<n>>) :
                prev \in {LevenshteinRows(str1, str2, n - 1)}})

levenshteinDistance(str1, str2) ==
    LevenshteinRows(str1, str2, Len(str2))[Len(str1) + 1]

\* A score that compares the strings before it tests them for emptiness.
similarityScoreEqualFirst(str1, str2) ==
    Only({
        IF s1 = s2 THEN [num |-> 1, den |-> 1]
        ELSE IF str1 = "" \/ str2 = "" THEN [num |-> 0, den |-> 1]
        ELSE Only({
                [num |-> Len(longer) - levenshteinDistance(longer, shorter),
                 den |-> Len(longer)] :
                longer \in {IF Len(s1) > Len(s2) THEN s1 ELSE s2},
                shorter \in {IF Len(s1) > Len(s2) THEN s2 ELSE s1}}) :
        s1 \in {toUpperCase(str1)}, s2 \in {toUpperCase(str2)}})

\* A score is the fraction num / den, den > 0.
similarityScore(str1, str2) ==
    IF str1 = "" \/ str2 = "" THEN [num |-> 0, den |-> 1]
    ELSE Only({
            IF s1 = s2 THEN [num |-> 1, den |-> 1]
            ELSE Only({
                    IF Len(longer) = 0 THEN [num |-> 1, den |-> 1]
                    ELSE [num |-> Len(longer) - levenshteinDistance(longer, shorter),
                          den |-> Len(longer)] :
                    longer \in {IF Len(s1) > Len(s2) THEN s1 ELSE s2},
                    shorter \in {IF Len(s1) > Len(s2) THEN s2 ELSE s1}}) :
            s1 \in {toUpperCase(str1)}, s2 \in {toUpperCase(str2)}})

\* A threshold that 0.6 itself passes.
AtThreshold(similarity) == 10 * similarity.num >= 6 * similarity.den

\* similarity > 0.6.  The quotient num / den is correctly rounded, so it
\* exceeds the double 0.6 exactly when the fraction exceeds 6 / 10.
AboveThreshold(similarity) == 10 * similarity.num > 6 * similarity.den

\* Math.round(similarity * 100): the nearest integer, halves upwards.
Percent(similarity) == (200 * similarity.num + similarity.den) \div (2 * similarity.den)

(***************************************************************************)
(* Vendor normalizer.                                                      *)
(***************************************************************************)
\* The built-in table, in the order of the object literal.
BaseMappings ==
    << [key |-> "CITI CARD", variants |-> <<"CITIBANK", "CITI CARD ONLINE", "CITICTP">>],
       [key |-> "BANK OF AMERICA", variants |-> <<"BK OF", "BK OF AMER VISA", "BANK OF AMERICA">>],
       [key |-> "CHASE", variants |-> <<"CHASE CREDIT CARD", "CHASE CARD", "CHASE BANK">>],
       [key |-> "SBA", variants |-> <<"SBA LOAN", "SBA EIDL", "SBA EIDL LOAN">>],
       [key |-> "BRANDUSA", variants |-> <<"BRANDUSA NIRO", "BRANDUSA">>],
       [key |-> "KATERINA", variants |-> <<"KATRINA", "KATERINA OHANYAN", "KATRINA OHANYAN">>] >>

\* { ...base, ...extra }: an entry of extra whose key is already present takes
\* the place of that entry's value, a new key is appended.
RECURSIVE MergeMappings(_, _)
MergeMappings(base, extra) ==
    IF extra = <<>> THEN base
    ELSE LET e == Head(extra)
             at == {k \in 1..Len(base) : base[k].key = e.key}
         IN  Only({MergeMappings(merged, Tail(extra)) :
                    merged \in {IF at = {} THEN Append(base, e)
                                ELSE [k \in 1..Len(base) |->
                                         IF k \in at THEN e ELSE base[k]]}})

\* The key of the first entry, in table order, one of whose variants occurs
\* in the string; "" when there is none (see HasMappedKey).
MappedKey(normalized, mappings) ==
    LET hits == {k \in 1..Len(mappings) :
                    \E v \in 1..Len(mappings[k].variants) :
                        includes(normalized, mappings[k].variants[v])}
    IN  IF hits = {} THEN ""
        ELSE mappings[CHOOSE k \in hits : \A h \in hits : k <= h].key

HasMappedKey(normalized, mappings) ==
    \E k \in 1..Len(mappings) : \E v \in 1..Len(mappings[k].variants) :
        includes(normalized, mappings[k].variants[v])

\* The number of whitespace characters of s from position q on.
RECURSIVE SpaceRun(_, _)
SpaceRun(s, q) ==
    IF q <= Len(s) /\ IsSpace(CharAt(s, q)) THEN 1 + SpaceRun(s, q + 1) ELSE 0

\* A terminator that is the end of the string only.
ZelleTerminatorEndOnly(desc, e) == e = Len(desc) + 1

\* (?:\s+JPM|$) at position e.
ZelleTerminator(desc, e) ==
    \/ SpaceRun(desc, e) >= 1 /\ \E m \in 1..SpaceRun(desc, e) :
            Slice(desc, e + m, e + m + 2) = "JPM"
    \/ e = Len(desc) + 1

\* The capture ([A-Z\s]+?) when the keyword ends right before position q:
\* \s+ gives back whitespace only when no capture follows its longest run,
\* and the capture is the shortest that a terminator follows.  <<>> when the
\* pattern fails here, else <<capture>>.
ZelleCaptureAt(desc, q) ==
    LET InClass(a, b) == \A k \in a..b :
            IsUpperLetter(CharAt(desc, k)) \/ IsSpace(CharAt(desc, k))
        Ends(c) == {e \in (c + 1)..(Len(desc) + 1) :
                        InClass(c, e - 1) /\ ZelleTerminator(desc, e)}
    IN  Only({
            IF ks = {} THEN <<>>
            ELSE Only({Only({
                    <<Slice(desc, c, (CHOOSE a \in ends : \A b \in ends : a <= b) - 1)>> :
                    ends \in {Ends(c)}}) :
                    c \in {q + (CHOOSE a \in ks : \A b \in ks : b <= a)}}) :
            ks \in {{k \in 1..SpaceRun(desc, q) : Ends(q + k) # {}}}})

\* desc.match(/ZELLE PAYMENT (?:TO|FROM)\s+([A-Z\s]+?)(?:\s+JPM|$)/): the
\* capture of the leftmost match as <<capture>>, <<>> when there is no match.
ZelleMatch(desc) ==
    LET After(p) == IF Slice(desc, p, p + 15) = "ZELLE PAYMENT TO" THEN p + 16
                    ELSE IF Slice(desc, p, p + 17) = "ZELLE PAYMENT FROM" THEN p + 18
                    ELSE 0
    IN  Only({
            IF starts = {} THEN <<>>
            ELSE ZelleCaptureAt(desc, After(CHOOSE p \in starts : \A r \in starts : p <= r)) :
            starts \in {{p \in 1..Len(desc) :
                            After(p) # 0 /\ ZelleCaptureAt(desc, After(p)) # <<>>}}})

\* The part of normalizeVendor after the Zelle exception: the synonym table,
\* then the prefixes and the first word.
NormalizeByTable(normalized, mappings) ==
    IF HasMappedKey(normalized, mappings)
    THEN MappedKey(normalized, mappings)
    ELSE Only({Only({Only({Only({Only({
            firstWord(trimmed) :
            trimmed \in {trim(r4)}}) :
            r4 \in {replace(r3, "ZELLE PAYMENT FROM")}}) :
            r3 \in {replace(r2, "ZELLE PAYMENT TO")}}) :
            r2 \in {replace(r1, "PAYMENT TO")}}) :
            r1 \in {replace(normalized, "ORIG CO NAME:")}})

\* description is "" when the argument is omitted.
normalizeVendor(vendor, description, extra) ==
    IF vendor = "" THEN ""
    ELSE Only({Only({
            IF zelleMatch # <<>> /\ zelleMatch[1] # ""
            THEN Only({firstWord(personName) : personName \in {trim(zelleMatch[1])}})
            ELSE Only({NormalizeByTable(normalized, mappings) :
                        mappings \in {MergeMappings(BaseMappings, extra)}}) :
            zelleMatch \in {IF normalized = "ZELLE" /\ description # ""
                            THEN Only({ZelleMatch(desc) : desc \in {toUpperCase(description)}})
                            ELSE <<>>}}) :
            normalized \in {trim(toUpperCase(vendor))}})

(***************************************************************************)
(* Match recording.  A record of a list is referred to by its index: the   *)
(* constructor copies every input record into a fresh object that stays at *)
(* its index for the whole run, so the index is the object's identity.     *)
(***************************************************************************)
\* Array.prototype.join
RECURSIVE join(_, _)
join(strings, separator) ==
    IF strings = <<>> THEN ""
    ELSE IF Len(strings) = 1 THEN strings[1]
    ELSE strings[1] \o separator \o join(Tail(strings), separator)

\* The MatchedPair pushed by createMatch.  bankIdx and qbIdx are the index
\* arguments of the call, kept with the pair.
MatchedPairOf(matchType, bankIdx, qbIdx) ==
    LET bank == bankTransactions[bankIdx]
        qb == qbTransactions[qbIdx]
    IN  [matchType |-> matchType,
         bankDate |-> bank.date,
         qbDate |-> qb.date,
         amount |-> Abs(bank.amount),
         bankType |-> bank.type,
         bankVendor |-> bank.vendor,
         bankDescription |-> bank.description,
         qbTransNumber |-> qb.transNumber,
         qbType |-> qb.type,
         qbName |-> qb.name,
         qbMemo |-> qb.memo,
         qbSplit |-> qb.split,
         bankIdx |-> bankIdx,
         qbIdx |-> <<qbIdx>>]

\* A commit that leaves the bank record's flag as it is.
createMatchNoBankFlag(matchType, bankIdx, qbIdx) ==
    /\ matched' = Append(matched, MatchedPairOf(matchType, bankIdx, qbIdx))
    /\ bankTransactions' = bankTransactions
    /\ qbTransactions' = [qbTransactions EXCEPT ![qbIdx].matched = TRUE]

createMatch(matchType, bankIdx, qbIdx) ==
    /\ matched' = Append(matched, MatchedPairOf(matchType, bankIdx, qbIdx))
    /\ bankTransactions' = [bankTransactions EXCEPT ![bankIdx].matched = TRUE]
    /\ qbTransactions' = [qbTransactions EXCEPT ![qbIdx].matched = TRUE]

\* A pair that takes the ledger date from the last record of the split.
SplitPairOfLastDate(matchType, bankIdx, qbIndices) ==
    LET bank == bankTransactions[bankIdx]
        qbs == [k \in 1..Len(qbIndices) |-> qbTransactions[qbIndices[k]]]
    IN  [matchType |-> matchType,
         bankDate |-> bank.date,
         qbDate |-> qbs[Len(qbs)].date,
         amount |-> Abs(bank.amount),
         bankType |-> bank.type,
         bankVendor |-> bank.vendor,
         bankDescription |-> bank.description,
         qbTransNumber |-> join([k \in 1..Len(qbs) |-> qbs[k].transNumber], ", "),
         qbType |-> "Multiple",
         qbName |-> join([k \in 1..Len(qbs) |-> qbs[k].name], ", "),
         qbMemo |-> join([k \in 1..Len(qbs) |-> qbs[k].memo], " | "),
         qbSplit |-> join([k \in 1..Len(qbs) |-> qbs[k].split], " | "),
         bankIdx |-> bankIdx,
         qbIdx |-> qbIndices]

\* The MatchedPair pushed by createSplitMatch.
SplitPairOf(matchType, bankIdx, qbIndices) ==
    LET bank == bankTransactions[bankIdx]
        qbs == [k \in 1..Len(qbIndices) |-> qbTransactions[qbIndices[k]]]
    IN  [matchType |-> matchType,
         bankDate |-> bank.date,
         qbDate |-> qbs[1].date,
         amount |-> Abs(bank.amount),
         bankType |-> bank.type,
         bankVendor |-> bank.vendor,
         bankDescription |-> bank.description,
         qbTransNumber |-> join([k \in 1..Len(qbs) |-> qbs[k].transNumber], ", "),
         qbType |-> "Multiple",
         qbName |-> join([k \in 1..Len(qbs) |-> qbs[k].name], ", "),
         qbMemo |-> join([k \in 1..Len(qbs) |-> qbs[k].memo], " | "),
         qbSplit |-> join([k \in 1..Len(qbs) |-> qbs[k].split], " | "),
         bankIdx |-> bankIdx,
         qbIdx |-> qbIndices]

\* A commit that writes the flag of every ledger record: true for the
\* records of the split, false for all others.
createSplitMatchOverwrite(matchType, bankIdx, qbIndices) ==
    /\ matched' = Append(matched, SplitPairOf(matchType, bankIdx, qbIndices))
    /\ bankTransactions' = [bankTransactions EXCEPT ![bankIdx].matched = TRUE]
    /\ qbTransactions' =
           [q \in 1..Len(qbTransactions) |->
               [qbTransactions[q] EXCEPT
                   !.matched = \E k \in 1..Len(qbIndices) : qbIndices[k] = q]]

\* A commit that flags only the first ledger record of the split.
createSplitMatchFirstOnly(matchType, bankIdx, qbIndices) ==
    /\ matched' = Append(matched, SplitPairOf(matchType, bankIdx, qbIndices))
    /\ bankTransactions' = [bankTransactions EXCEPT ![bankIdx].matched = TRUE]
    /\ qbTransactions' = [qbTransactions EXCEPT ![qbIndices[1]].matched = TRUE]

createSplitMatch(matchType, bankIdx, qbIndices) ==
    /\ matched' = Append(matched, SplitPairOf(matchType, bankIdx, qbIndices))
    /\ bankTransactions' = [bankTransactions EXCEPT ![bankIdx].matched = TRUE]
    /\ qbTransactions' =
           [q \in 1..Len(qbTransactions) |->
               IF \E k \in 1..Len(qbIndices) : qbIndices[k] = q
               THEN [qbTransactions[q] EXCEPT !.matched = TRUE]
               ELSE qbTransactions[q]]

\* Nothing is recorded in this iteration.
NoMatch == UNCHANGED <<matched, bankTransactions, qbTransactions>>

\* The locals of one loop iteration: the pass, the bank index, whether the
\* record was skipped as already matched, the candidate list, the ledger
\* records committed, and the comparisons that came out true: for pass 4
\* the positions whose sum test passed, for pass 5 the ledger records at a
\* difference of exactly 1.00 that the filter kept.
ScanOf(p, bankIdx, skipped, candidates, committed, passing) ==
    [pass |-> p, bankIdx |-> bankIdx, skipped |-> skipped,
     candidates |-> candidates, committed |-> committed, passing |-> passing]

NoScan == ScanOf(0, 0, FALSE, <<>>, <<>>, {})

\* i++ of the running loop.
Advance == i' = i + 1 /\ UNCHANGED <<additionalMappings, pass, result, call, value, appVars, callerVars>>

(***************************************************************************)
(* Passes 1, 2 and 3.                                                      *)
(***************************************************************************)
\* The candidates of exactMatch for the bank record at bankIdx.
ExactCandidates(bankIdx) ==
    LET bank == bankTransactions[bankIdx]
        bankAmount == Abs(bank.amount)
    IN  Ascending({q \in 1..Len(qbTransactions) :
                      /\ ~qbTransactions[q].matched
                      /\ isSameDay(bank.date, qbTransactions[q].date)
                      /\ getQBAmount(qbTransactions[q], bank.type) = bankAmount},
                  Len(qbTransactions))

\* A filter that does not look at the ledger records' matched flag.
NearDateCandidatesAnyFlag(bankIdx, days) ==
    LET bank == bankTransactions[bankIdx]
        bankAmount == Abs(bank.amount)
    IN  Ascending({q \in 1..Len(qbTransactions) :
                      /\ isWithinDays(bank.date, qbTransactions[q].date, days)
                      /\ getQBAmount(qbTransactions[q], bank.type) = bankAmount},
                  Len(qbTransactions))

\* The candidates of nearDateMatch(days).
NearDateCandidates(bankIdx, days) ==
    LET bank == bankTransactions[bankIdx]
        bankAmount == Abs(bank.amount)
    IN  Ascending({q \in 1..Len(qbTransactions) :
                      /\ ~qbTransactions[q].matched
                      /\ isWithinDays(bank.date, qbTransactions[q].date, days)
                      /\ getQBAmount(qbTransactions[q], bank.type) = bankAmount},
                  Len(qbTransactions))

\* A loop body that takes the first candidate whenever there is one.
UniqueCandidateStepFirst(matchType, candidates, passing) ==
    IF bankTransactions[i].matched
    THEN NoMatch /\ scan' = ScanOf(pass, i, TRUE, <<>>, <<>>, {})
    ELSE IF Len(candidates) >= 1
    THEN /\ createMatch(matchType, i, candidates[1])
         /\ scan' = ScanOf(pass, i, FALSE, candidates, <<candidates[1]>>, passing)
    ELSE NoMatch /\ scan' = ScanOf(pass, i, FALSE, candidates, <<>>, passing)

\* The body of a loop that matches on a unique candidate.  passing is
\* recorded with the iteration.
UniqueCandidateStep(matchType, candidates, passing) ==
    IF bankTransactions[i].matched
    THEN NoMatch /\ scan' = ScanOf(pass, i, TRUE, <<>>, <<>>, {})
    ELSE IF Len(candidates) = 1
    THEN /\ createMatch(matchType, i, candidates[1])
         /\ scan' = ScanOf(pass, i, FALSE, candidates, candidates, passing)
    ELSE NoMatch /\ scan' = ScanOf(pass, i, FALSE, candidates, <<>>, passing)

\* One iteration of the loop of exactMatch.
exactMatch ==
    /\ pass = 1
    /\ i <= Len(bankTransactions)
    /\ UniqueCandidateStep("Exact", ExactCandidates(i), {})
    /\ Advance

NearDateTag(days) == "Near Date (±" \o ToString(days) \o "d)"

\* The two near-date passes in the other order.
nearDateMatchWideFirst(days) ==
    /\ pass = (IF days = 3 THEN 3 ELSE 2)
    /\ i <= Len(bankTransactions)
    /\ UniqueCandidateStep(NearDateTag(days), NearDateCandidates(i, days), {})
    /\ Advance

\* One iteration of the loop of nearDateMatch(3) (pass 2) or nearDateMatch(7)
\* (pass 3).
nearDateMatch(days) ==
    /\ pass = (IF days = 3 THEN 2 ELSE 3)
    /\ i <= Len(bankTransactions)
    /\ UniqueCandidateStep(NearDateTag(days), NearDateCandidates(i, days), {})
    /\ Advance

(***************************************************************************)
(* Pass 4: splits.                                                         *)
(***************************************************************************)
\* The candidates of splitMatch.
SplitCandidates(bankIdx) ==
    LET bank == bankTransactions[bankIdx]
    IN  Ascending({q \in 1..Len(qbTransactions) :
                      /\ ~qbTransactions[q].matched
                      /\ isWithinDays(bank.date, qbTransactions[q].date, 5)
                      /\ getQBAmount(qbTransactions[q], bank.type) > 0},
                  Len(qbTransactions))

\* The positions <<j, k>> and <<j, k, l>> that the loops range over.
Combinations(n) ==
    {c \in (1..n) \X (1..n) : c[1] < c[2]} \cup
    {c \in (1..n) \X (1..n) \X (1..n) : c[1] < c[2] /\ c[2] < c[3]}

\* sum of the ledger amounts at the given positions of the candidate list.
RECURSIVE SumAt(_, _, _)
SumAt(candidates, bankType, positions) ==
    IF positions = <<>> THEN 0
    ELSE getQBAmount(qbTransactions[candidates[Head(positions)]], bankType)
         + SumAt(candidates, bankType, Tail(positions))

\* |sum - bankAmount| in cents for the subset at the given positions.
SumGap(bankIdx, candidates, positions) ==
    Abs(SumAt(candidates, bankTransactions[bankIdx].type, positions)
        - Abs(bankTransactions[bankIdx].amount))

\* A 2-transaction search whose inner loop runs from the end of the list.
RECURSIVE ScanPairsBackwards(_, _, _, _)
ScanPairsBackwards(n, j, k, passing) ==
    IF j > n - 1 THEN <<>>
    ELSE IF k > n THEN ScanPairsBackwards(n, j + 1, j + 2, passing)
    ELSE IF <<j, n + j + 1 - k>> \in passing THEN <<j, n + j + 1 - k>>
    ELSE ScanPairsBackwards(n, j, k + 1, passing)

\* The loops over j and k of the 2-transaction search: the first positions
\* whose test passes, <<>> when the loops run out.
RECURSIVE ScanPairs(_, _, _, _)
ScanPairs(n, j, k, passing) ==
    IF j > n - 1 THEN <<>>
    ELSE IF k > n THEN ScanPairs(n, j + 1, j + 2, passing)
    ELSE IF <<j, k>> \in passing THEN <<j, k>>
    ELSE ScanPairs(n, j, k + 1, passing)

\* The loops over j, k and l of the 3-transaction search.
RECURSIVE ScanTriples(_, _, _, _, _)
ScanTriples(n, j, k, l, passing) ==
    IF j > n - 2 THEN <<>>
    ELSE IF k > n - 1 THEN ScanTriples(n, j + 1, j + 2, j + 3, passing)
    ELSE IF l > n THEN ScanTriples(n, j, k + 1, k + 2, passing)
    ELSE IF <<j, k, l>> \in passing THEN <<j, k, l>>
    ELSE ScanTriples(n, j, k, l + 1, passing)

SplitTag(n) == IF n = 2 THEN "Split (2 transactions)" ELSE "Split (3 transactions)"

\* One iteration of the loop of splitMatch.  passing is the set of positions
\* for which Math.abs(sum - bankAmount) < 0.01 evaluates to true.
splitMatch ==
    /\ pass = 4
    /\ i <= Len(bankTransactions)
    /\ IF bankTransactions[i].matched
       THEN NoMatch /\ scan' = ScanOf(pass, i, TRUE, <<>>, <<>>, {})
       ELSE \E candidates \in {SplitCandidates(i)} :
            LET n == Len(candidates)
                sure == {c \in Combinations(n) :
                            FloatLess(SumGap(i, candidates, c), 1) = {TRUE}}
                open == {c \in Combinations(n) :
                            FloatLess(SumGap(i, candidates, c), 1) = BOOLEAN}
            IN  \E lucky \in SUBSET open :
                \E passing \in {sure \cup lucky} :
                \E pair \in {ScanPairs(n, 1, 2, passing)} :
                \E found \in {IF pair # <<>> THEN pair
                               ELSE ScanTriples(n, 1, 2, 3, passing)} :
                \E qbIndices \in {[k \in 1..Len(found) |-> candidates[found[k]]]} :
                    IF n < 2 \/ found = <<>>
                    THEN NoMatch /\ scan' = ScanOf(pass, i, FALSE, candidates, <<>>, passing)
                    ELSE /\ createSplitMatch(SplitTag(Len(found)), i, qbIndices)
                         /\ scan' = ScanOf(pass, i, FALSE, candidates, qbIndices, passing)
    /\ Advance

(***************************************************************************)
(* Pass 5: fuzzy amount.                                                   *)
(***************************************************************************)
\* The ledger records that fuzzyAmountMatch's filter keeps for certain, and
\* those it keeps or drops according to the rounding of the difference.
FuzzyPool(bankIdx, outcome) ==
    LET bank == bankTransactions[bankIdx]
        bankAmount == Abs(bank.amount)
    IN  {q \in 1..Len(qbTransactions) :
            /\ ~qbTransactions[q].matched
            /\ isWithinDays(bank.date, qbTransactions[q].date, 3)
            /\ FloatAtMost(Abs(getQBAmount(qbTransactions[q], bank.type) - bankAmount),
                           100) = outcome}

\* One iteration of the loop of fuzzyAmountMatch.  lucky holds the ledger
\* records at a difference of 1.00 for which the comparison comes out true.
fuzzyAmountMatch ==
    /\ pass = 5
    /\ i <= Len(bankTransactions)
    /\ \E lucky \in SUBSET FuzzyPool(i, BOOLEAN) :
       \E candidates \in {Ascending(FuzzyPool(i, {TRUE}) \cup lucky,
                                    Len(qbTransactions))} :
          UniqueCandidateStep("Fuzzy Amount", candidates, lucky)
    /\ Advance

(***************************************************************************)
(* Pass 6: vendor and type.                                                *)
(***************************************************************************)
\* The candidates of vendorTypeMatch.
VendorCandidates(bankIdx) ==
    LET bank == bankTransactions[bankIdx]
        bankAmount == Abs(bank.amount)
    IN  Ascending({q \in 1..Len(qbTransactions) :
                      /\ ~qbTransactions[q].matched
                      /\ isWithinDays(bank.date, qbTransactions[q].date, 3)
                      /\ getQBAmount(qbTransactions[q], bank.type) = bankAmount
                      /\ typesAreCompatible(bank.type, qbTransactions[q].type)},
                  Len(qbTransactions))

\* bankVendorNorm of the loop body.
BankVendorNorm(bankIdx) ==
    normalizeVendor(bankTransactions[bankIdx].vendor,
                    bankTransactions[bankIdx].description, additionalMappings)

\* qbVendorNorm of the loop body for the ledger record q.
QBVendorNorm(q) == normalizeVendor(qbTransactions[q].name, "", additionalMappings)

\* The condition of the if in the loop body.
VendorAccepts(bankVendorNorm, qbVendorNorm, similarity) ==
    \/ AboveThreshold(similarity)
    \/ (bankVendorNorm = qbVendorNorm /\ bankVendorNorm # "")

\* A loop that goes on to the end of the list and keeps the last accepted
\* candidate.
RECURSIVE LastAccepted(_, _, _)
LastAccepted(bankVendorNorm, candidates, k) ==
    IF k > Len(candidates) THEN <<>>
    ELSE Only({Only({Only({
            IF later # <<>> THEN later
            ELSE IF VendorAccepts(bankVendorNorm, qbVendorNorm, similarity)
            THEN <<candidates[k], similarity>>
            ELSE <<>> :
            later \in {LastAccepted(bankVendorNorm, candidates, k + 1)}}) :
            similarity \in {similarityScore(bankVendorNorm, qbVendorNorm)}}) :
            qbVendorNorm \in {QBVendorNorm(candidates[k])}})

\* for (const candidate of candidates): the first accepted candidate from
\* position k on as <<index, similarity>>, <<>> when the loop runs out.
RECURSIVE FirstAccepted(_, _, _)
FirstAccepted(bankVendorNorm, candidates, k) ==
    IF k > Len(candidates) THEN <<>>
    ELSE Only({Only({
            IF VendorAccepts(bankVendorNorm, qbVendorNorm, similarity)
            THEN <<candidates[k], similarity>>
            ELSE FirstAccepted(bankVendorNorm, candidates, k + 1) :
            similarity \in {similarityScore(bankVendorNorm, qbVendorNorm)}}) :
            qbVendorNorm \in {QBVendorNorm(candidates[k])}})

VendorTag(similarity) == "Vendor+Type (" \o ToString(Percent(similarity)) \o "% similar)"

\* One iteration of the outer loop of vendorTypeMatch.
vendorTypeMatch ==
    /\ pass = 6
    /\ i <= Len(bankTransactions)
    /\ IF bankTransactions[i].matched
       THEN NoMatch /\ scan' = ScanOf(pass, i, TRUE, <<>>, <<>>, {})
       ELSE \E bankVendorNorm \in {BankVendorNorm(i)} :
            \E candidates \in {VendorCandidates(i)} :
            \E found \in {FirstAccepted(bankVendorNorm, candidates, 1)} :
                IF found = <<>>
                THEN NoMatch /\ scan' = ScanOf(pass, i, FALSE, candidates, <<>>, {})
                ELSE \E tag \in {VendorTag(found[2])} :
                     /\ createMatch(tag, i, found[1])
                     /\ scan' = ScanOf(pass, i, FALSE, candidates, <<found[1]>>, {})
    /\ Advance

(***************************************************************************)
(* match(): the sequence of the passes and the result.                     *)
(***************************************************************************)
\* A match() that runs the fuzzy pass again as long as a bank record is
\* unmatched after pass 6.
PassReturnsOrRetries ==
    /\ pass \in 1..6
    /\ i > Len(bankTransactions)
    /\ pass' = IF pass = 6 /\ \E k \in 1..Len(bankTransactions) : ~bankTransactions[k].matched
               THEN 5 ELSE pass + 1
    /\ i' = 1
    /\ UNCHANGED <<bankTransactions, qbTransactions, matched, additionalMappings,
                   result, scan, call, value, appVars, callerVars>>

\* A loop that ends one record early.
PassReturnsEarly ==
    /\ pass \in 1..6
    /\ i >= Len(bankTransactions)
    /\ pass' = pass + 1
    /\ i' = 1
    /\ UNCHANGED <<bankTransactions, qbTransactions, matched, additionalMappings,
                   result, scan, call, value, appVars, callerVars>>

\* A loop over the bank list has run out: the pass returns and match() goes
\* on to the next one.
PassReturns ==
    /\ pass \in 1..6
    /\ i > Len(bankTransactions)
    /\ pass' = pass + 1
    /\ i' = 1
    /\ UNCHANGED <<bankTransactions, qbTransactions, matched, additionalMappings,
                   result, scan, call, value, appVars, callerVars>>

NoResult == [returned |-> FALSE]

\* a / b of two non-negative integers as a double: a fraction, or NaN or
\* Infinity when b is 0.
Divide(a, b) ==
    IF b # 0 THEN [kind |-> "number", num |-> a, den |-> b]
    ELSE IF a = 0 THEN [kind |-> "NaN"]
    ELSE [kind |-> "Infinity"]

\* x * 100 of a double.
Times100(x) == IF x.kind = "number" THEN [x EXCEPT !.num = x.num * 100] ELSE x

\* The return statement of match().  unmatchedBank and unmatchedQB hold
\* references to the records.
MatchReturns ==
    /\ pass = 7
    /\ result' = [returned |-> TRUE,
                  matched |-> matched,
                  unmatchedBank |-> Ascending({b \in 1..Len(bankTransactions) :
                                        ~bankTransactions[b].matched}, Len(bankTransactions)),
                  unmatchedQB |-> Ascending({q \in 1..Len(qbTransactions) :
                                        ~qbTransactions[q].matched}, Len(qbTransactions)),
                  matchRate |-> Times100(Divide(Len(matched), Len(bankTransactions))),
                  totalBank |-> Len(bankTransactions),
                  totalQB |-> Len(qbTransactions)]
    /\ pass' = 8
    /\ UNCHANGED <<bankTransactions, qbTransactions, matched, additionalMappings, i, scan,
                   call, value, appVars, callerVars>>

Next ==
    \/ exactMatch
    \/ nearDateMatch(3)
    \/ nearDateMatch(7)
    \/ splitMatch
    \/ fuzzyAmountMatch
    \/ vendorTypeMatch
    \/ PassReturns
    \/ MatchReturns

(***************************************************************************)
(* Inputs.  The constructor copies the two lists and clears every matched  *)
(* flag.                                                                   *)
(***************************************************************************)
\* new Date(year, month, day): local midnight of day n.
Day(n) ==
    IF n > SummerTimeBegins /\ n <= SummerTimeEnds
    THEN n * HoursPerDay - 1
    ELSE n * HoursPerDay

BankRecord(date, type, amount, vendor, description) ==
    [date |-> date, type |-> type, vendor |-> vendor, description |-> description,
     amount |-> amount, matched |-> FALSE]

QBRecord(date, type, name, debit, credit) ==
    [date |-> date, transNumber |-> "", type |-> type, name |-> name,
     memo |-> "memo", split |-> "split", debit |-> debit, credit |-> credit,
     matched |-> FALSE]

\* All lists of at most n records of a pool.
ListsOf(pool, n) == UNION {[1..m -> pool] : m \in 0..n}

\* The ledger rows carry their row number as transaction number.
Numbered(qbs) == [q \in 1..Len(qbs) |-> [qbs[q] EXCEPT !.transNumber = ToString(q)]]

\* null of the renderer's and the main process's variables.
Null == "null"

\* The disabled attributes of the two buttons in the page as it is loaded.
LoadedButtons == [processBtn |-> TRUE, openResultsBtn |-> TRUE]

\* The window after its script has run: no file chosen, nothing in progress,
\* no invocation under way.
WindowLoaded ==
    /\ renderer = [bankFilePath |-> Null,
                   qbFilePath |-> Null,
                   isProcessing |-> FALSE,
                   lastResultsFolder |-> Null,
                   processBtnDisabled |-> LoadedButtons.processBtn,
                   openResultsBtnDisabled |-> LoadedButtons.openResultsBtn,
                   statsShown |-> FALSE]
    /\ ipc = <<>>
    /\ lastResults = Null

\* No matcher has been built from any list.
Uncalled ==
    /\ caller = [bank |-> <<>>, qb |-> <<>>, results |-> <<>>]
    /\ others = <<>>

NoCall == [op |-> "", args |-> <<>>]

NoValue == [returned |-> FALSE]

\* The copy that keeps the flags of the caller's records.
SameRecords(transactions) == transactions

\* transactions.map(t => ({ ...t, matched: false })) of the constructor.
FreshCopy(transactions) ==
    [k \in 1..Len(transactions) |-> [transactions[k] EXCEPT !.matched = FALSE]]

\* The state after new GLMatcher(bank, qb, mappings) at the start of match().
Constructed(bank, qb, mappings) ==
    /\ bankTransactions = FreshCopy(bank)
    /\ qbTransactions = FreshCopy(Numbered(qb))
    /\ caller = [bank |-> bank, qb |-> Numbered(qb), results |-> <<>>]
    /\ others = <<>>
    /\ matched = <<>>
    /\ additionalMappings = mappings
    /\ pass = 1
    /\ i = 1
    /\ result = NoResult
    /\ scan = NoScan
    /\ call = NoCall
    /\ value = NoValue
    /\ WindowLoaded

\* Dates and amounts around the windows and tolerances of the passes: ledger
\* dates 0, 2 and 8 days from the first bank date and 3, 1 and 5 days from
\* the second; an amount equal to the bank amount, one 1.00 below it, and
\* two that sum to it.
BankPool ==
    {BankRecord(Day(10), "Deposit", 300, "JOHN", ""),
     BankRecord(Day(13), "Deposit", 300, "JOHN", ""),
     BankRecord(Day(10), "Withdrawal", -300, "JOHN", "")}

QBPool ==
    {QBRecord(Day(10), "Deposit", "JOHN", 300, 0),
     QBRecord(Day(12), "Deposit", "ACME", 300, 0),
     QBRecord(Day(18), "Deposit", "JOHN", 300, 0),
     QBRecord(Day(10), "Deposit", "JOHN", 200, 0),
     QBRecord(Day(12), "Deposit", "JOHN", 100, 0),
     QBRecord(Day(10), "Check", "JON", 0, 300)}

Init ==
    \E bank \in ListsOf(BankPool, MaxBank), qb \in ListsOf(QBPool, MaxQB) :
        Constructed(bank, qb, <<>>)

Spec == Init /\ [][Next]_vars

\* Inputs for the split search: up to MaxSplitQB ledger records around one
\* date, with amounts that sum to the bank amount in twos or threes or miss
\* it by one cent, one record outside the 5-day window and one without an
\* amount on the deposit side.
MaxSplitQB == 4

SplitBankPool ==
    {BankRecord(Day(10), "Deposit", 300, "JOHN", ""),
     BankRecord(Day(10), "Deposit", 301, "JOHN", "")}

SplitQBPool ==
    {QBRecord(Day(10), "Deposit", "JOHN", 100, 0),
     QBRecord(Day(12), "Deposit", "ACME", 200, 0),
     QBRecord(Day(16), "Deposit", "JOHN", 200, 0),
     QBRecord(Day(10), "Check", "JOHN", 0, 200)}

InitSplit ==
    \E bank \in ListsOf(SplitBankPool, MaxBank), qb \in ListsOf(SplitQBPool, MaxSplitQB) :
        Constructed(bank, qb, <<>>)

SpecSplit == InitSplit /\ [][Next]_vars

\* Inputs for pass 6: records of one amount, so that the earlier passes
\* leave the ambiguous ones to it, with names at similarity 0.6, 0.8 and 1
\* to each other, an empty name, a peer transfer, and ledger types inside
\* and outside the allow-lists.
VendorBankPool ==
    {BankRecord(Day(10), "Deposit", 300, "JOHNS", ""),
     BankRecord(Day(10), "Deposit", 300, "Zelle", "Zelle payment to John Smith JPM99"),
     BankRecord(Day(10), "Deposit", 300, "", ""),
     BankRecord(Day(10), "Withdrawal", -300, "JOHNS", "")}

VendorQBPool ==
    {QBRecord(Day(10), "Deposit", "JOHAN", 300, 0),
     QBRecord(Day(12), "Payment", "JOHN SMITH", 300, 0),
     QBRecord(Day(10), "Journal", "JOHNS", 300, 0),
     QBRecord(Day(10), "Deposit", "", 300, 0),
     QBRecord(Day(10), "Check", "JOHNS", 0, 300)}

InitVendor ==
    \E bank \in ListsOf(VendorBankPool, MaxBank), qb \in ListsOf(VendorQBPool, MaxQB) :
        Constructed(bank, qb, <<>>)

SpecVendor == InitVendor /\ [][Next]_vars

\* Inputs with a bank amount below the fuzzy tolerance of 1.00 and ledger
\* records that carry their amount on the debit or on the credit side.
SidesBankPool ==
    {BankRecord(Day(10), "Deposit", 50, "JOHN", ""),
     BankRecord(Day(10), "Deposit", 300, "JOHN", ""),
     BankRecord(Day(11), "Withdrawal", -300, "ACME", "")}

SidesQBPool ==
    {QBRecord(Day(10), "Check", "ACME", 0, 700),
     QBRecord(Day(10), "Deposit", "JOHN", 300, 0),
     QBRecord(Day(11), "Check", "ACME", 0, 300)}

InitSides ==
    \E bank \in ListsOf(SidesBankPool, MaxBank), qb \in ListsOf(SidesQBPool, MaxQB) :
        Constructed(bank, qb, <<>>)

SpecSides == InitSides /\ [][Next]_vars

(***************************************************************************)
(* The helper functions on their own.                                      *)
(***************************************************************************)
\* A matcher over empty lists on which the helper op is called with args.
Called(op, args) ==
    /\ bankTransactions = <<>>
    /\ qbTransactions = <<>>
    /\ matched = <<>>
    /\ additionalMappings = <<>>
    /\ pass = 1
    /\ i = 1
    /\ result = NoResult
    /\ scan = NoScan
    /\ call = [op |-> op, args |-> args]
    /\ value = NoValue
    /\ WindowLoaded
    /\ Uncalled

\* The called helper returns v.
Returns(v) ==
    /\ value = NoValue
    /\ value' = [returned |-> TRUE, value |-> v]
    /\ UNCHANGED <<bankTransactions, qbTransactions, matched, additionalMappings, pass, i,
                   result, scan, call, appVars, callerVars>>

\* The largest window of a call of isWithinDays.
MaxDays == 3

\* Dates that ingestion produces around the end of summer time: local
\* midnights (MM/DD/YYYY strings, spreadsheet serial numbers) and times
\* within the day (date strings that carry a time or a UTC date).
DatePool ==
    {Day(n) + h : n \in (SummerTimeEnds - 2)..(SummerTimeEnds + 3), h \in {0, 9, 23}}

\* isSameDay(date1, date2) and isWithinDays(date1, date2, days) for one pair
\* of dates.
DateHelpersCall ==
    /\ call.op = "isWithinDays"
    /\ Returns([isSameDay |-> isSameDay(call.args[1], call.args[2]),
                isWithinDays |-> isWithinDays(call.args[1], call.args[2], call.args[3])])

InitDates ==
    \E date1 \in DatePool, date2 \in DatePool, days \in 0..MaxDays :
        Called("isWithinDays", <<date1, date2, days>>)

SpecDates == InitDates /\ [][DateHelpersCall]_vars

\* The longest string of a call of similarityScore or levenshteinDistance.
MaxLen == 3

\* The strings of at most n characters over two letters, one of them in
\* both cases.
RECURSIVE Strings(_)
Strings(n) ==
    IF n = 0 THEN {""}
    ELSE Strings(n - 1) \cup {s \o c : s \in Strings(n - 1), c \in {"A", "a", "B"}}

similarityScoreCall ==
    /\ call.op = "similarityScore"
    /\ Returns(similarityScore(call.args[1], call.args[2]))

levenshteinDistanceCall ==
    /\ call.op = "levenshteinDistance"
    /\ Returns(levenshteinDistance(call.args[1], call.args[2]))

InitSimilarity ==
    \E op \in {"similarityScore", "levenshteinDistance"} :
    \E str1 \in Strings(MaxLen), str2 \in Strings(MaxLen) :
        Called(op, <<str1, str2>>)

NextSimilarity == similarityScoreCall \/ levenshteinDistanceCall

SpecSimilarity == InitSimilarity /\ [][NextSimilarity]_vars

\* Vendor strings of bank and ledger records: the peer-payment marker, names
\* with a fragment of the built-in table, names with a prefix that is
\* stripped, plain names and the empty name.
NormalizeVendorPool ==
    {"", "Zelle", " zelle ", "Chase Bank", "BK OF AMER VISA", "Citibank NA",
     "ORIG CO NAME:Acme Corp", "Payment to John Smith", "John Smith",
     "Katrina", "Katerina Ohanyan"}

\* Descriptions of bank records; "" is the omitted argument of a ledger name.
NormalizeDescriptionPool ==
    {"", "Zelle payment to John Smith JPM99a1", "Zelle payment from John Smith",
     "Zelle payment to Katrina Ohanyan JPM99a1", "Zelle payment to Citibank",
     "Online transfer to John Smith"}

\* normalizeVendor(vendor, description), and normalizeVendor of what it
\* returned.
normalizeVendorCall ==
    /\ call.op = "normalizeVendor"
    /\ \E normalized \in {normalizeVendor(call.args[1], call.args[2], additionalMappings)} :
          Returns([normalized |-> normalized,
                   again |-> normalizeVendor(normalized, "", additionalMappings)])

InitNormalize ==
    \E vendor \in NormalizeVendorPool, description \in NormalizeDescriptionPool :
        Called("normalizeVendor", <<vendor, description>>)

SpecNormalize == InitNormalize /\ [][normalizeVendorCall]_vars

\* A matcher built with the mappings, on which the helper op is called.
CalledOn(mappings, op, args) ==
    /\ bankTransactions = <<>>
    /\ qbTransactions = <<>>
    /\ matched = <<>>
    /\ additionalMappings = mappings
    /\ pass = 1
    /\ i = 1
    /\ result = NoResult
    /\ scan = NoScan
    /\ call = [op |-> op, args |-> args]
    /\ value = NoValue
    /\ WindowLoaded
    /\ Uncalled

\* Mappings handed to the constructor: none, new keys, and keys of the
\* built-in table with fragments of their own.
ExtraMappingsPool ==
    {<<>>,
     <<[key |-> "ACME", variants |-> <<"ACME CORP", "ACME INC">>]>>,
     <<[key |-> "CITI CARD", variants |-> <<"CITI VISA">>]>>,
     <<[key |-> "KATERINA", variants |-> <<"KATYA">>]>>,
     <<[key |-> "CHASE", variants |-> <<"JPMORGAN">>]>>,
     <<[key |-> "ACME", variants |-> <<"ACME CORP">>],
       [key |-> "BANK OF AMERICA", variants |-> <<"BOFA">>]>>}

MappedVendorPool ==
    {"Citibank NA", "Citi Visa 4411", "Katrina Ohanyan", "Katya O", "Chase Bank",
     "JPMorgan Chase", "Acme Corp", "BK OF AMER VISA", "BofA Card", "John Smith"}

InitMappings ==
    \E mappings \in ExtraMappingsPool, vendor \in MappedVendorPool,
       description \in {"", "Online transfer"} :
        CalledOn(mappings, "normalizeVendor", <<vendor, description>>)

SpecMappings == InitMappings /\ [][normalizeVendorCall]_vars

\* The literal prefixes as they stand in bank vendors, and none.
VendorPrefixes ==
    {"", "ORIG CO NAME:", "ORIG CO NAME: ", "Payment to ", "PAYMENT TO ",
     "Zelle payment to ", "ZELLE PAYMENT FROM "}

VendorRests == {"John", "ABC Corp", "John Smith"}

InitPrefixes ==
    \E prefix \in VendorPrefixes, rest \in VendorRests,
       description \in {"", "Online transfer", "Zelle payment to John Smith"} :
        Called("normalizeVendor", <<prefix \o rest, description>>)

SpecPrefixes == InitPrefixes /\ [][normalizeVendorCall]_vars

\* match() is synchronous code: once called, every loop iteration and every
\* return that is enabled is taken.
RunBankPool ==
    {BankRecord(Day(10), "Deposit", 300, "JOHN", ""),
     BankRecord(Day(11), "Withdrawal", -300, "ACME", "")}

RunQBPool ==
    {QBRecord(Day(10), "Deposit", "JOHN", 300, 0),
     QBRecord(Day(10), "Deposit", "JOHN", 150, 0),
     QBRecord(Day(11), "Check", "ACME", 0, 300)}

InitRun ==
    \E bank \in ListsOf(RunBankPool, MaxBank), qb \in ListsOf(RunQBPool, MaxQB) :
        Constructed(bank, qb, <<>>)

SpecRun == InitRun /\ [][Next]_vars /\ WF_vars(Next)

\* Two deposits four days apart and ledger records between and around them:
\* a ledger record can be a candidate of both bank records.
OrderBankPool ==
    {BankRecord(Day(10), "Deposit", 300, "JOHN", ""),
     BankRecord(Day(14), "Deposit", 300, "ACME", "")}

OrderQBPool ==
    {QBRecord(Day(8), "Deposit", "JOHN", 300, 0),
     QBRecord(Day(12), "Deposit", "ACME", 300, 0),
     QBRecord(Day(20), "Deposit", "JOHN", 300, 0)}

InitOrder ==
    \E bank \in ListsOf(OrderBankPool, MaxBank), qb \in ListsOf(OrderQBPool, MaxQB) :
        Constructed(bank, qb, <<>>)

SpecOrder == InitOrder /\ [][Next]_vars

\* Peer payments on the bank side and the payee on the ledger side, with
\* ledger records of equal amount that keep the date passes from deciding.
PeerBankPool ==
    {BankRecord(Day(10), "Deposit", 300, "Zelle", "Zelle payment to John Smith JPM99a1"),
     BankRecord(Day(10), "Withdrawal", -300, " ZELLE", "ZELLE PAYMENT FROM JOHN SMITH"),
     BankRecord(Day(10), "Deposit", 300, "Acme", "")}

PeerQBPool ==
    {QBRecord(Day(12), "Payment", "John Smith", 300, 0),
     QBRecord(Day(11), "Deposit", "Acme Corp", 300, 0),
     QBRecord(Day(12), "Check", "JOHN SMITH", 0, 300)}

\* Either a matcher over peer payments or a call of normalizeVendor.
InitPeer ==
    \/ \E bank \in ListsOf(PeerBankPool, MaxBank), qb \in ListsOf(PeerQBPool, MaxQB) :
          Constructed(bank, qb, <<>>)
    \/ InitNormalize

NextPeer ==
    \/ exactMatch
    \/ nearDateMatch(3)
    \/ nearDateMatch(7)
    \/ splitMatch
    \/ fuzzyAmountMatch
    \/ vendorTypeMatch
    \/ PassReturns
    \/ MatchReturns
    \/ normalizeVendorCall

SpecPeer == InitPeer /\ [][NextPeer]_vars

(***************************************************************************)
(* Two matchers.  The fields of the matcher whose code runs are the        *)
(* matcher variables; the other matcher waits in others with the lists it  *)
(* was built from, and caller.bank and caller.qb are the lists the running *)
(* one was built from.  The caller runs the passes of the two in any       *)
(* order, one whole pass at a time.                                        *)
(***************************************************************************)
\* The GLMatcher that new GLMatcher(bank, qb, mappings) builds.
Built(bank, qb, mappings) ==
    [bankTransactions |-> FreshCopy(bank),
     qbTransactions |-> FreshCopy(Numbered(qb)),
     matched |-> <<>>,
     additionalMappings |-> mappings,
     pass |-> 1,
     i |-> 1,
     result |-> NoResult,
     scan |-> NoScan,
     of |-> [bank |-> bank, qb |-> Numbered(qb)]]

\* The running matcher with the lists it was built from.
Running ==
    [bankTransactions |-> bankTransactions,
     qbTransactions |-> qbTransactions,
     matched |-> matched,
     additionalMappings |-> additionalMappings,
     pass |-> pass,
     i |-> i,
     result |-> result,
     scan |-> scan,
     of |-> [bank |-> caller.bank, qb |-> caller.qb]]

\* Between two passes of the running matcher the caller goes on with the
\* other one.
Switch ==
    /\ others # <<>>
    /\ i = 1
    /\ bankTransactions' = others[1].bankTransactions
    /\ qbTransactions' = others[1].qbTransactions
    /\ matched' = others[1].matched
    /\ additionalMappings' = others[1].additionalMappings
    /\ pass' = others[1].pass
    /\ i' = others[1].i
    /\ result' = others[1].result
    /\ scan' = others[1].scan
    /\ caller' = [caller EXCEPT !.bank = others[1].of.bank, !.qb = others[1].of.qb]
    /\ others' = <<Running>>
    /\ UNCHANGED <<call, value, appVars>>

\* The most ledger records of the two matchers' input.
MaxPairQB == 2

\* The records of a list in every order.
Reordered(transactions) ==
    {[k \in 1..Len(transactions) |-> transactions[order[k]]] :
        order \in Permutations(1..Len(transactions))}

\* The list with every matched flag set to flag.
Flagged(transactions, flag) ==
    [k \in 1..Len(transactions) |-> [transactions[k] EXCEPT !.matched = flag]]

\* Two matchers: one built from a bank list and a ledger list, the other
\* from the same bank records in any order and the same ledger list, with
\* the matched flags of its input records set or not.
InitTwo ==
    \E bank \in ListsOf(OrderBankPool, MaxBank), qb \in ListsOf(OrderQBPool, MaxPairQB),
       flag \in BOOLEAN :
        \E again \in Reordered(bank) :
            /\ bankTransactions = Built(bank, qb, <<>>).bankTransactions
            /\ qbTransactions = Built(bank, qb, <<>>).qbTransactions
            /\ matched = <<>>
            /\ additionalMappings = <<>>
            /\ pass = 1
            /\ i = 1
            /\ result = NoResult
            /\ scan = NoScan
            /\ call = NoCall
            /\ value = NoValue
            /\ WindowLoaded
            /\ caller = [bank |-> bank, qb |-> Numbered(qb), results |-> <<>>]
            /\ others = <<Built(Flagged(again, flag), Flagged(qb, flag), <<>>)>>

NextTwo ==
    \/ exactMatch
    \/ nearDateMatch(3)
    \/ nearDateMatch(7)
    \/ splitMatch
    \/ fuzzyAmountMatch
    \/ vendorTypeMatch
    \/ PassReturns
    \/ MatchReturns
    \/ Switch

SpecTwo == InitTwo /\ [][NextTwo]_vars

(***************************************************************************)
(* match() called again on the same instance.  Nothing in match() resets   *)
(* the flags or this.matched.                                              *)
(***************************************************************************)
\* The most calls of match() on one instance.
MaxCalls == 2

\* A match() that starts from an empty match list.
matchAgainCleared ==
    /\ pass = 8
    /\ Len(caller.results) + 1 < MaxCalls
    /\ caller' = [caller EXCEPT !.results = Append(@, result)]
    /\ matched' = <<>>
    /\ pass' = 1
    /\ i' = 1
    /\ result' = NoResult
    /\ scan' = NoScan
    /\ UNCHANGED <<bankTransactions, qbTransactions, additionalMappings, others,
                   call, value, appVars>>

\* The caller keeps the result of the call that returned and calls match()
\* again.
matchAgain ==
    /\ pass = 8
    /\ Len(caller.results) + 1 < MaxCalls
    /\ caller' = [caller EXCEPT !.results = Append(@, result)]
    /\ pass' = 1
    /\ i' = 1
    /\ result' = NoResult
    /\ scan' = NoScan
    /\ UNCHANGED <<bankTransactions, qbTransactions, matched, additionalMappings, others,
                   call, value, appVars>>

\* A deposit with two ledger records of its amount two days from it, and a
\* deposit half a dollar above the later of them, which only the fuzzy pass
\* matches.
AgainBankPool ==
    {BankRecord(Day(10), "Deposit", 300, "ZED", ""),
     BankRecord(Day(14), "Deposit", 350, "ACME", "")}

InitAgain ==
    \E bank \in ListsOf(AgainBankPool, MaxBank), qb \in ListsOf(OrderQBPool, MaxQB) :
        Constructed(bank, qb, <<>>)

NextAgain ==
    \/ exactMatch
    \/ nearDateMatch(3)
    \/ nearDateMatch(7)
    \/ splitMatch
    \/ fuzzyAmountMatch
    \/ vendorTypeMatch
    \/ PassReturns
    \/ MatchReturns
    \/ matchAgain

SpecAgain == InitAgain /\ [][NextAgain]_vars

(***************************************************************************)
(* Ingestion of the bank file (src/main/parsers.ts).  A row of the file is *)
(* a record of its cells.  Date is <<n>> for the MM/DD/YYYY text of day n, *)
(* Amount is <<m>> for the text of m thousandths, and <<>> is a missing or *)
(* empty cell; a missing text cell is Null.  The year 0 stands for an      *)
(* undefined year: both are falsy.                                         *)
(***************************************************************************)
DaysPerYear == 365

\* getFullYear(): day 0 is the first day of 2025.
getFullYear(date) == 2025 + (CalendarDay(date) \div DaysPerYear)

\* parseDate: it throws on a missing date.
parseDate(dateStr) ==
    IF dateStr = <<>> THEN [threw |-> TRUE] ELSE [threw |-> FALSE, date |-> Day(dateStr[1])]

\* Math.round(parseFloat(text || '0') * 100) / 100, in cents.
RoundedAmount(cell) == IF cell = <<>> THEN 0 ELSE (cell[1] + 5) \div 10

\* The body of the loop over the rows: the transactions it pushes for one
\* row, none when the date throws, the year differs or the row is a fee.
parseBankRow(row, year) ==
    LET parsed == parseDate(row.Date)
    IN  IF parsed.threw THEN <<>>
        ELSE IF year # 0 /\ getFullYear(parsed.date) # year THEN <<>>
        ELSE IF row.Type = "Fee" THEN <<>>
        ELSE <<BankRecord(parsed.date, row.Type, RoundedAmount(row.Amount),
                          IF row.Vendor = Null THEN "" ELSE row.Vendor,
                          IF row.Description = Null THEN "" ELSE row.Description)>>

RECURSIVE parseBankCSV(_, _)
parseBankCSV(rows, year) ==
    IF rows = <<>> THEN <<>>
    ELSE parseBankRow(Head(rows), year) \o parseBankCSV(Tail(rows), year)

\* The most rows of a bank file.
MaxRows == 2

\* Rows of a bank file: dates in 2025, in 2024 and missing, every Type that
\* bank exports carry and a missing one, amounts with more than two
\* decimals.
BankRows ==
    {[Date |-> date, Type |-> type, Amount |-> amount, Vendor |-> "ACME", Description |-> Null] :
        date \in {<<10>>, <<-20>>, <<>>},
        type \in {"Deposit", "Withdrawal", "Fee", "Transfer", Null},
        amount \in {<<12345>>, <<-1005>>}}

parseBankCSVCall ==
    /\ call.op = "parseBankCSV"
    /\ Returns(parseBankCSV(call.args[1], call.args[2]))

InitParse ==
    \E rows \in ListsOf(BankRows, MaxRows), year \in {2025, 0} :
        Called("parseBankCSV", <<rows, year>>)

SpecParse == InitParse /\ [][parseBankCSVCall]_vars

(***************************************************************************)
(* The window and the main process.  An invocation is a record: the        *)
(* channel, the arguments, its stage ("sent" until the handler of the main *)
(* process has run, then "replied" or "rejected") and the reply.           *)
(***************************************************************************)
matcherVars == <<bankTransactions, qbTransactions, matched, additionalMappings, pass, i,
                 result, scan, call, value>>

\* The most file dialogs that are open or answered and not yet handled.
MaxDialogs == 2

\* The most process-reconciliation invocations under way.
MaxRequests == 2

BankPaths == {"C:/in/bank_2025.csv"}

QBPaths == {"C:/in/gl_2025.xlsx"}

\* Output folders: the name carries Date.now().
OutputDirs == {"GL_Matching_Results_2025_1", "GL_Matching_Results_2025_2"}

Invocation(channel, args) ==
    [channel |-> channel, args |-> args, stage |-> "sent", reply |-> Null]

Remove(s, k) == SubSeq(s, 1, k - 1) \o SubSeq(s, k + 1, Len(s))

Count(channels) == Cardinality({k \in 1..Len(ipc) : ipc[k].channel \in channels})

\* The invocations of a channel that are at a stage.
At(channel, stages) ==
    {k \in 1..Len(ipc) : ipc[k].channel = channel /\ ipc[k].stage \in stages}

\* A button state that follows the chosen files only.
updateProcessButtonFilesOnly(r) ==
    [r EXCEPT !.processBtnDisabled = ~(r.bankFilePath # Null /\ r.qbFilePath # Null)]

\* updateProcessButton() on the renderer state r.
updateProcessButton(r) ==
    [r EXCEPT !.processBtnDisabled =
        ~(r.bankFilePath # Null /\ r.qbFilePath # Null) \/ r.isProcessing]

\* Click on a select button: the handler invokes the main process and waits.
selectClick(channel) ==
    /\ Count({"select-bank-file", "select-qb-file"}) < MaxDialogs
    /\ ipc' = Append(ipc, Invocation(channel, <<>>))
    /\ UNCHANGED <<renderer, lastResults, matcherVars, callerVars>>

\* The handler of a select channel: the dialog closes, cancelled or with
\* file paths; the handler returns null or the first path.
selectFileHandler(channel, paths) ==
    \E k \in At(channel, {"sent"}) :
    \E dialogResult \in {[canceled |-> TRUE, filePaths |-> <<>>],
                         [canceled |-> FALSE, filePaths |-> <<>>]}
                        \cup {[canceled |-> FALSE, filePaths |-> <<path>>] : path \in paths} :
        /\ ipc' = [ipc EXCEPT ![k].stage = "replied",
                              ![k].reply = IF dialogResult.canceled
                                              \/ Len(dialogResult.filePaths) = 0
                                           THEN Null
                                           ELSE dialogResult.filePaths[1]]
        /\ UNCHANGED <<renderer, lastResults, matcherVars, callerVars>>

\* The click handler of selectBankBtn after its await.
selectBankContinues ==
    \E k \in At("select-bank-file", {"replied"}) :
        /\ renderer' = IF ipc[k].reply # Null
                       THEN updateProcessButton([renderer EXCEPT !.bankFilePath = ipc[k].reply])
                       ELSE renderer
        /\ ipc' = Remove(ipc, k)
        /\ UNCHANGED <<lastResults, matcherVars, callerVars>>

\* The click handler of selectQBBtn after its await.
selectQBContinues ==
    \E k \in At("select-qb-file", {"replied"}) :
        /\ renderer' = IF ipc[k].reply # Null
                       THEN updateProcessButton([renderer EXCEPT !.qbFilePath = ipc[k].reply])
                       ELSE renderer
        /\ ipc' = Remove(ipc, k)
        /\ UNCHANGED <<lastResults, matcherVars, callerVars>>

\* Click on processBtn, which a disabled button does not deliver: the
\* handler up to its await.
processClick ==
    /\ ~renderer.processBtnDisabled
    /\ Count({"process-reconciliation"}) < MaxRequests
    /\ IF renderer.bankFilePath = Null \/ renderer.qbFilePath = Null
       THEN UNCHANGED <<renderer, ipc>>
       ELSE /\ renderer' = [updateProcessButton([renderer EXCEPT !.isProcessing = TRUE])
                               EXCEPT !.statsShown = FALSE]
            /\ ipc' = Append(ipc, Invocation("process-reconciliation",
                                             <<renderer.bankFilePath, renderer.qbFilePath>>))
    /\ UNCHANGED <<lastResults, matcherVars, callerVars>>

\* The handler of process-reconciliation: it parses, matches, exports and
\* returns the success object; or a step throws and the catch block returns
\* the failure object; or the catch block itself throws on a thrown value
\* without a message and the invocation rejects.
processReconciliation ==
    \E k \in At("process-reconciliation", {"sent"}) :
        \/ \E outputDir \in OutputDirs :
              /\ lastResults' = outputDir
              /\ ipc' = [ipc EXCEPT ![k].stage = "replied",
                                    ![k].reply = [success |-> TRUE, outputDir |-> outputDir]]
              /\ UNCHANGED <<renderer, matcherVars, callerVars>>
        \/ /\ ipc' = [ipc EXCEPT ![k].stage = "replied",
                                 ![k].reply = [success |-> FALSE, error |-> "message"]]
           /\ UNCHANGED <<renderer, lastResults, matcherVars, callerVars>>
        \/ /\ ipc' = [ipc EXCEPT ![k].stage = "rejected"]
           /\ UNCHANGED <<renderer, lastResults, matcherVars, callerVars>>

\* A click handler that resets isProcessing at the end of the try block and
\* not in a finally block.
processContinuesNoFinally ==
    \E k \in At("process-reconciliation", {"replied", "rejected"}) :
        /\ renderer' =
               IF ipc[k].stage = "rejected" THEN renderer
               ELSE updateProcessButton(
                        [(IF ipc[k].reply.success
                          THEN [renderer EXCEPT !.lastResultsFolder = ipc[k].reply.outputDir,
                                                !.openResultsBtnDisabled = FALSE,
                                                !.statsShown = TRUE]
                          ELSE renderer) EXCEPT !.isProcessing = FALSE])
        /\ ipc' = Remove(ipc, k)
        /\ UNCHANGED <<lastResults, matcherVars, callerVars>>

\* The click handler of processBtn after its await: the try block, the
\* catch block and the finally block.
processContinues ==
    \E k \in At("process-reconciliation", {"replied", "rejected"}) :
    \E afterTry \in {IF ipc[k].stage = "replied" /\ ipc[k].reply.success
                     THEN [renderer EXCEPT !.lastResultsFolder = ipc[k].reply.outputDir,
                                           !.openResultsBtnDisabled = FALSE,
                                           !.statsShown = TRUE]
                     ELSE renderer} :
        /\ renderer' = updateProcessButton([afterTry EXCEPT !.isProcessing = FALSE])
        /\ ipc' = Remove(ipc, k)
        /\ UNCHANGED <<lastResults, matcherVars, callerVars>>

\* Click on openResultsBtn, which a disabled button does not deliver.
openResultsClick ==
    /\ ~renderer.openResultsBtnDisabled
    /\ renderer.lastResultsFolder # Null
    /\ Count({"open-results-folder"}) < 1
    /\ ipc' = Append(ipc, Invocation("open-results-folder", <<renderer.lastResultsFolder>>))
    /\ UNCHANGED <<renderer, lastResults, matcherVars, callerVars>>

\* The handler of open-results-folder: shell.openPath returns or throws.
openResultsFolder ==
    \E k \in At("open-results-folder", {"sent"}) : \E success \in BOOLEAN :
        /\ ipc' = [ipc EXCEPT ![k].stage = "replied", ![k].reply = [success |-> success]]
        /\ UNCHANGED <<renderer, lastResults, matcherVars, callerVars>>

\* The click handler of openResultsBtn after its await: it logs.
openResultsContinues ==
    \E k \in At("open-results-folder", {"replied"}) :
        /\ ipc' = Remove(ipc, k)
        /\ UNCHANGED <<renderer, lastResults, matcherVars, callerVars>>

\* The window with no matcher at work.
InitApp ==
    /\ bankTransactions = <<>>
    /\ qbTransactions = <<>>
    /\ matched = <<>>
    /\ additionalMappings = <<>>
    /\ pass = 1
    /\ i = 1
    /\ result = NoResult
    /\ scan = NoScan
    /\ call = NoCall
    /\ value = NoValue
    /\ WindowLoaded
    /\ Uncalled

NextApp ==
    \/ selectClick("select-bank-file")
    \/ selectClick("select-qb-file")
    \/ selectFileHandler("select-bank-file", BankPaths)
    \/ selectFileHandler("select-qb-file", QBPaths)
    \/ selectBankContinues
    \/ selectQBContinues
    \/ processClick
    \/ processReconciliation
    \/ processContinues
    \/ openResultsClick
    \/ openResultsFolder
    \/ openResultsContinues

SpecApp == InitApp /\ [][NextApp]_vars

\* The main process runs the handler of an invocation it has received, and
\* the renderer runs the rest of a click handler once its await has settled.
SpecAppFair ==
    /\ InitApp
    /\ [][NextApp]_vars
    /\ WF_vars(processReconciliation)
    /\ WF_vars(processContinues)

(***************************************************************************)
(* Properties.                                                             *)
(***************************************************************************)
\* The number of matches of a list that have the bank record b as bank side.
BankUses(matches, b) == Cardinality({m \in 1..Len(matches) : matches[m].bankIdx = b})

\* The number of places at which matches of a list consume the ledger record q.
QBUses(matches, q) ==
    Cardinality({mk \in (1..Len(matches)) \X (1..3) :
                    /\ mk[2] <= Len(matches[mk[1]].qbIdx)
                    /\ matches[mk[1]].qbIdx[mk[2]] = q})

\* The number of positions of a list that hold x.
Occurrences(list, x) == Cardinality({k \in 1..Len(list) : list[k] = x})

\* C1: when match() has returned, every bank record is the bank side of
\* exactly one match or listed once in unmatchedBank, never both and never
\* neither, and every ledger record is consumed by exactly one match or
\* listed once in unmatchedQB, never both and never neither.
PartitionInvariant ==
    result.returned =>
        /\ \A b \in 1..Len(bankTransactions) :
              BankUses(result.matched, b) + Occurrences(result.unmatchedBank, b) = 1
        /\ \A q \in 1..Len(qbTransactions) :
              QBUses(result.matched, q) + Occurrences(result.unmatchedQB, q) = 1
        /\ \A k \in 1..Len(result.unmatchedBank) :
              result.unmatchedBank[k] \in 1..Len(bankTransactions)
        /\ \A k \in 1..Len(result.unmatchedQB) :
              result.unmatchedQB[k] \in 1..Len(qbTransactions)

\* A result with a split match, a bank record left over and a ledger record
\* left over.
PartitionWitness ==
    /\ result.returned
    /\ \E m \in 1..Len(result.matched) : Len(result.matched[m].qbIdx) >= 2
    /\ result.unmatchedBank # <<>>
    /\ result.unmatchedQB # <<>>

\* No record is in two matches of the match list.
AtMostOneMatch ==
    /\ \A b \in 1..Len(bankTransactions) : BankUses(matched, b) <= 1
    /\ \A q \in 1..Len(qbTransactions) : QBUses(matched, q) <= 1

\* A step that adds to the match list adds one match, whose bank record and
\* ledger records were unmatched before the step and whose ledger records
\* are pairwise distinct.
CommitTakesUnmatched ==
    Len(matched') > Len(matched) =>
        LET m == matched'[Len(matched')]
        IN  /\ Len(matched') = Len(matched) + 1
            /\ ~bankTransactions[m.bankIdx].matched
            /\ \A k \in 1..Len(m.qbIdx) : ~qbTransactions[m.qbIdx[k]].matched
            /\ \A k, l \in 1..Len(m.qbIdx) : k # l => m.qbIdx[k] # m.qbIdx[l]

\* C2: in every reachable state each bank record and each ledger record is
\* in at most one match, and every commit consumes records that had
\* matched = false right before it, pairwise distinct within a split.
EachRecordMatchedOnce == []AtMostOneMatch /\ [][CommitTakesUnmatched]_vars

\* A split has been committed after another match.
MatchedOnceWitness ==
    /\ Len(matched) >= 2
    /\ Len(matched[Len(matched)].qbIdx) >= 2

\* |ledger amount - |bank amount|| in cents for the bank record b and the
\* ledger record q.
AmountGap(b, q) ==
    Abs((IF bankTransactions[b].type = "Deposit"
         THEN qbTransactions[q].debit ELSE qbTransactions[q].credit)
        - Abs(bankTransactions[b].amount))

\* The distance of the two records' dates in hours.
HoursApart(b, q) == Abs(bankTransactions[b].date - qbTransactions[q].date)

\* The predicate of pass p (1, 2, 3 or 5) on the bank record b and the ledger
\* record q.  An amount difference of exactly 1.00 satisfies pass 5 when the
\* comparison of the two doubles came out true, which kept records.
SatisfiesPass(p, b, q, kept) ==
    CASE p = 1 -> /\ CalendarDay(bankTransactions[b].date) = CalendarDay(qbTransactions[q].date)
                  /\ AmountGap(b, q) = 0
      [] p = 2 -> HoursApart(b, q) <= 3 * HoursPerDay /\ AmountGap(b, q) = 0
      [] p = 3 -> HoursApart(b, q) <= 7 * HoursPerDay /\ AmountGap(b, q) = 0
      [] p = 5 -> /\ HoursApart(b, q) <= 3 * HoursPerDay
                  /\ \/ AmountGap(b, q) < 100
                     \/ AmountGap(b, q) = 100 /\ q \in kept

\* A step that scans the bank record i in pass 1, 2, 3 or 5 commits a match
\* iff the record is unmatched and exactly one unmatched ledger record
\* satisfies the pass's predicate; the match is of these two records and sets
\* their flags; a step that does not commit changes no flag and no match.
UniquenessStep ==
    (i' = i + 1 /\ pass \in {1, 2, 3, 5}) =>
        LET eligible == {q \in 1..Len(qbTransactions) :
                            /\ ~qbTransactions[q].matched
                            /\ SatisfiesPass(pass, i, q, scan'.passing)}
            commits == matched' # matched
        IN  /\ commits <=> (~bankTransactions[i].matched /\ Cardinality(eligible) = 1)
            /\ commits =>
                  /\ Len(matched') = Len(matched) + 1
                  /\ matched'[Len(matched')].bankIdx = i
                  /\ \E q \in eligible : matched'[Len(matched')].qbIdx = <<q>>
                  /\ bankTransactions'[i].matched
                  /\ \A q \in 1..Len(qbTransactions) :
                        qbTransactions'[q].matched =
                            (qbTransactions[q].matched \/ q \in eligible)
            /\ ~commits => UNCHANGED <<matched, bankTransactions, qbTransactions>>

PassOfTag(matchType) ==
    CASE matchType = "Exact" -> 1
      [] matchType = "Near Date (±3d)" -> 2
      [] matchType = "Near Date (±7d)" -> 3
      [] matchType \in {"Split (2 transactions)", "Split (3 transactions)"} -> 4
      [] matchType = "Fuzzy Amount" -> 5
      [] OTHER -> 6

\* The match list is ordered by pass and, within a pass, by bank index; it
\* holds no match of a pass that has not started and none for a bank record
\* that the running pass has not scanned yet.
MatchListOrdered ==
    /\ \A m, n \in 1..Len(matched) :
          m < n =>
             \/ PassOfTag(matched[m].matchType) < PassOfTag(matched[n].matchType)
             \/ /\ PassOfTag(matched[m].matchType) = PassOfTag(matched[n].matchType)
                /\ matched[m].bankIdx < matched[n].bankIdx
    /\ \A m \in 1..Len(matched) :
          /\ PassOfTag(matched[m].matchType) <= pass
          /\ PassOfTag(matched[m].matchType) = pass => matched[m].bankIdx < i
    /\ result.returned => result.matched = matched

\* A pass is left only for the next one, and only when its loop has scanned
\* every bank record; an iteration scans the bank record at i in the running
\* pass.
PassesInSequence ==
    /\ pass' # pass => pass' = pass + 1 /\ (pass <= 6 => i > Len(bankTransactions))
    /\ i' = i + 1 => scan'.pass = pass /\ scan'.bankIdx = i /\ i <= Len(bankTransactions)

\* C4: the passes run in the order Exact, Near ±3, Near ±7, Split, Fuzzy,
\* Vendor+Type, each after the previous one has scanned every bank record;
\* in the match list the matches of pass k precede those of pass k+1 and
\* within a pass they are in increasing bank index.
PassOrder == []MatchListOrdered /\ [][PassesInSequence]_vars

\* A returned match list whose two matches come from different passes, the
\* later one from pass 4 or after.
PassOrderWitness ==
    /\ result.returned
    /\ \E m, n \in 1..Len(result.matched) :
          PassOfTag(result.matched[m].matchType) < PassOfTag(result.matched[n].matchType)
    /\ Len(result.matched) = 2
    /\ PassOfTag(result.matched[2].matchType) >= 4

\* C5: when the bank list is empty, the returned match rate is not the
\* invalid number that the division by zero gives.
EmptyBankRateIsGuarded ==
    (result.returned /\ result.totalBank = 0) =>
        result.matchRate.kind \notin {"NaN", "Infinity"}

\* C6: when totalBank > 0, the number of returned matches is the number of
\* bank records with matched = true, matches plus unmatched bank records
\* are totalBank, and matchRate = matches / totalBank * 100 lies in 0..100.
MatchRateIsPercentage ==
    (result.returned /\ result.totalBank > 0) =>
        /\ result.totalBank = Len(bankTransactions)
        /\ Len(result.matched) =
              Cardinality({b \in 1..Len(bankTransactions) : bankTransactions[b].matched})
        /\ Len(result.matched) + Len(result.unmatchedBank) = result.totalBank
        /\ result.matchRate.kind = "number"
        /\ result.matchRate.num = Len(result.matched) * 100
        /\ result.matchRate.den = result.totalBank
        /\ 0 <= result.matchRate.num
        /\ result.matchRate.num <= 100 * result.matchRate.den

\* A result with a rate strictly between 0 and 100.
MatchRateWitness ==
    /\ result.returned
    /\ result.totalBank = 2
    /\ Len(result.matched) = 1
    /\ Len(result.unmatchedBank) = 1

\* No step clears a flag, and every step leaves the matches that are in the
\* match list where and what they are.
NothingUndone ==
    /\ Len(bankTransactions') = Len(bankTransactions)
    /\ Len(qbTransactions') = Len(qbTransactions)
    /\ \A b \in 1..Len(bankTransactions) :
          bankTransactions[b].matched => bankTransactions'[b].matched
    /\ \A q \in 1..Len(qbTransactions) :
          qbTransactions[q].matched => qbTransactions'[q].matched
    /\ Len(matched') >= Len(matched)
    /\ \A m \in 1..Len(matched) : matched'[m] = matched[m]

\* C7: a matched flag that is set is never cleared, and the match list only
\* grows at its end: no match is removed or rewritten.
MonotonicGrowth == [][NothingUndone]_vars

\* A split has been committed in pass 4 while a ledger record flagged by an
\* earlier pass is not among its records.
MonotonicWitness ==
    /\ scan.pass = 4
    /\ Len(scan.committed) >= 2
    /\ \E q \in 1..Len(qbTransactions) :
          /\ qbTransactions[q].matched
          /\ \A k \in 1..Len(scan.committed) : scan.committed[k] # q

\* What the tag of a match of one ledger record says of its two records.
TagHolds(m) ==
    LET b == m.bankIdx
        q == m.qbIdx[1]
    IN  /\ m.matchType = "Exact" =>
              /\ CalendarDay(bankTransactions[b].date) = CalendarDay(qbTransactions[q].date)
              /\ AmountGap(b, q) = 0
        /\ m.matchType = "Near Date (±3d)" =>
              HoursApart(b, q) <= 3 * HoursPerDay /\ AmountGap(b, q) = 0
        /\ m.matchType = "Near Date (±7d)" =>
              HoursApart(b, q) <= 7 * HoursPerDay /\ AmountGap(b, q) = 0
        /\ m.matchType = "Fuzzy Amount" =>
              HoursApart(b, q) <= 3 * HoursPerDay /\ AmountGap(b, q) <= 100

\* C8: every match of one ledger record satisfies the predicate of the pass
\* its tag names: Exact on the same calendar day with equal amounts, Near
\* Date (±3d) and (±7d) within 3 and 7 days with equal amounts, Fuzzy Amount
\* within 3 days with amounts at most 1.00 apart.
TaggedMatchesSatisfyPass ==
    \A m \in 1..Len(matched) :
        Len(matched[m].qbIdx) = 1 =>
            /\ TagHolds(matched[m])
            /\ matched[m].bankDate = bankTransactions[matched[m].bankIdx].date
            /\ matched[m].qbDate = qbTransactions[matched[m].qbIdx[1]].date
            /\ matched[m].amount = Abs(bankTransactions[matched[m].bankIdx].amount)

\* A returned match list with a Near Date (±3d) match of a ledger record two
\* days after the bank record, which is no Exact match, and a Fuzzy Amount
\* match of two amounts exactly 1.00 apart.
TaggedMatchesWitness ==
    /\ result.returned
    /\ \E m \in 1..Len(result.matched) :
          /\ result.matched[m].matchType = "Near Date (±3d)"
          /\ result.matched[m].qbDate - result.matched[m].bankDate = 2 * HoursPerDay
    /\ \E m \in 1..Len(result.matched) :
          /\ result.matched[m].matchType = "Fuzzy Amount"
          /\ AmountGap(result.matched[m].bankIdx, result.matched[m].qbIdx[1]) = 100
    /\ \A m \in 1..Len(result.matched) : result.matched[m].matchType # "Exact"

\* |sum - |bank amount|| in cents for the ledger records at the positions c
\* of the candidate list of the last scan.
ScanGap(c) ==
    LET RECURSIVE Sum(_)
        Sum(k) == IF k = 0 THEN 0
                  ELSE Sum(k - 1) +
                       (IF bankTransactions[scan.bankIdx].type = "Deposit"
                        THEN qbTransactions[scan.candidates[c[k]]].debit
                        ELSE qbTransactions[scan.candidates[c[k]]].credit)
    IN  Abs(Sum(Len(c)) - Abs(bankTransactions[scan.bankIdx].amount))

\* The increasing position tuples of the given size over the candidate list
\* of the last scan.
ScanSubsets(size) ==
    LET n == Len(scan.candidates)
    IN  IF size = 2
        THEN {c \in (1..n) \X (1..n) : c[1] < c[2]}
        ELSE {c \in (1..n) \X (1..n) \X (1..n) : c[1] < c[2] /\ c[2] < c[3]}

\* The subsets of the given size that qualify: those whose sum test passed.
\* A sum equal to the bank amount always passes and one that is two cents
\* or more away never does.
Qualifying(size) == {c \in ScanSubsets(size) : c \in scan.passing}

\* a comes before b in lexicographic order, or is b.
LexAtMost(a, b) ==
    \E k \in 1..(Len(a) + 1) :
        /\ \A h \in 1..(k - 1) : a[h] = b[h]
        /\ k <= Len(a) => a[k] < b[k]

\* The ledger records at the lexicographically first tuple of a set.
FirstOf(tuples) ==
    LET c == CHOOSE a \in tuples : \A b \in tuples : LexAtMost(a, b)
    IN  [k \in 1..Len(c) |-> scan.candidates[c[k]]]

\* C9: for a bank record scanned in pass 4, the lexicographically first pair
\* of candidates that sums to the bank amount is committed if there is one;
\* a triple is committed only when no pair qualifies, and it is the
\* lexicographically first qualifying triple; at most one subset is
\* committed for the bank record.
SplitSearchOrder ==
    (scan.pass = 4 /\ ~scan.skipped) =>
        /\ \A c \in ScanSubsets(2) \cup ScanSubsets(3) :
              /\ ScanGap(c) = 0 => c \in scan.passing
              /\ ScanGap(c) >= 2 => c \notin scan.passing
        /\ scan.committed =
              (IF Qualifying(2) # {} THEN FirstOf(Qualifying(2))
               ELSE IF Qualifying(3) # {} THEN FirstOf(Qualifying(3))
               ELSE <<>>)
        /\ scan.committed # <<>> =>
              /\ matched # <<>>
              /\ matched[Len(matched)].bankIdx = scan.bankIdx
              /\ matched[Len(matched)].qbIdx = scan.committed
        /\ Cardinality({m \in 1..Len(matched) :
                           /\ matched[m].bankIdx = scan.bankIdx
                           /\ Len(matched[m].qbIdx) >= 2}) <= 1
        /\ scan.committed = <<>> =>
              \A m \in 1..Len(matched) : matched[m].bankIdx # scan.bankIdx

\* Pass 4 has committed the first of several pairs that sum to the bank
\* amount, one of which does not begin with the first candidate, while a
\* triple sums to it as well.
SplitSearchWitness ==
    /\ scan.pass = 4
    /\ ~scan.skipped
    /\ Len(scan.committed) = 2
    /\ \E c \in Qualifying(2) : c[1] > 1 /\ ScanGap(c) = 0
    /\ \E c \in Qualifying(3) : ScanGap(c) = 0

\* C10: a pair or triple of candidates whose sum is within 0.01 of the bank
\* amount, a difference of exactly one cent included, is accepted as a
\* split: a bank record scanned in pass 4 with such a subset among its
\* candidates gets a split match.
SplitToleranceInclusive ==
    (scan.pass = 4 /\ ~scan.skipped) =>
        /\ \A c \in ScanSubsets(2) \cup ScanSubsets(3) :
              ScanGap(c) <= 1 => c \in scan.passing
        /\ (\E c \in ScanSubsets(2) \cup ScanSubsets(3) : ScanGap(c) <= 1) =>
              scan.committed # <<>>

\* C11: in every split match all ledger records of the split carry the same
\* date, and each is within 5 days of the bank record.
SplitRecordsShareDate ==
    \A m \in 1..Len(matched) :
        Len(matched[m].qbIdx) >= 2 =>
            /\ \A k, l \in 1..Len(matched[m].qbIdx) :
                  qbTransactions[matched[m].qbIdx[k]].date
                      = qbTransactions[matched[m].qbIdx[l]].date
            /\ \A k \in 1..Len(matched[m].qbIdx) :
                  HoursApart(matched[m].bankIdx, matched[m].qbIdx[k]) <= 5 * HoursPerDay

\* A match is a split when it consumes more than one ledger record or
\* carries a split tag.
IsSplit(m) ==
    \/ Len(m.qbIdx) # 1
    \/ m.matchType \in {"Split (2 transactions)", "Split (3 transactions)"}
    \/ m.qbType = "Multiple"

\* Every split of the match list has one bank record and 2 or 3 ledger
\* records inside the 5-day window with a positive amount on the bank
\* record's side, the tag of its size, ledger type Multiple, the first
\* record's date and the bank amount; and all of its flags are set.
SplitMatchShape ==
    \A m \in 1..Len(matched) :
        IsSplit(matched[m]) =>
            LET s == matched[m]
                b == s.bankIdx
            IN  /\ Len(s.qbIdx) \in {2, 3}
                /\ \A k \in 1..Len(s.qbIdx) :
                      /\ HoursApart(b, s.qbIdx[k]) <= 5 * HoursPerDay
                      /\ (IF bankTransactions[b].type = "Deposit"
                          THEN qbTransactions[s.qbIdx[k]].debit
                          ELSE qbTransactions[s.qbIdx[k]].credit) > 0
                      /\ qbTransactions[s.qbIdx[k]].matched
                /\ bankTransactions[b].matched
                /\ s.matchType = (IF Len(s.qbIdx) = 2 THEN "Split (2 transactions)"
                                  ELSE "Split (3 transactions)")
                /\ s.qbType = "Multiple"
                /\ s.qbDate = qbTransactions[s.qbIdx[1]].date
                /\ s.bankDate = bankTransactions[b].date
                /\ s.amount = Abs(bankTransactions[b].amount)

\* A step that commits a split finds the flags of all its records clear and
\* leaves them all set, and changes no other flag.
SplitCommitAtomic ==
    (matched' # matched /\ IsSplit(matched'[Len(matched')])) =>
        LET s == matched'[Len(matched')]
            taken == {s.qbIdx[k] : k \in 1..Len(s.qbIdx)}
        IN  /\ pass = 4
            /\ ~bankTransactions[s.bankIdx].matched
            /\ bankTransactions' = [bankTransactions EXCEPT ![s.bankIdx].matched = TRUE]
            /\ \A q \in taken : ~qbTransactions[q].matched
            /\ qbTransactions' =
                  [q \in 1..Len(qbTransactions) |->
                      IF q \in taken THEN [qbTransactions[q] EXCEPT !.matched = TRUE]
                      ELSE qbTransactions[q]]

\* C12: every split match consumes one bank record and 2 or 3 ledger
\* records, each within 5 days of the bank date and with a positive ledger
\* amount for the bank category; one commit sets the bank flag and all the
\* ledger flags together, so that no state has some of them set and others
\* not; the match has the tag of its size, ledger type Multiple, the first
\* record's date as ledger date and |bank amount| as amount.
SplitMatchesWellFormed == []SplitMatchShape /\ [][SplitCommitAtomic]_vars

\* A split of three ledger records has been committed while a fourth
\* candidate of the same scan stays unmatched.
SplitShapeWitness ==
    /\ scan.pass = 4
    /\ Len(scan.committed) = 3
    /\ Len(scan.candidates) = 4
    /\ matched[Len(matched)].matchType = "Split (3 transactions)"
    /\ \E k \in 1..4 : ~qbTransactions[scan.candidates[k]].matched

\* The name rule of pass 6 for the bank record b and the ledger record q.
NameRule(b, q) ==
    \E bankName \in {normalizeVendor(bankTransactions[b].vendor,
                                     bankTransactions[b].description, additionalMappings)} :
    \E qbName \in {normalizeVendor(qbTransactions[q].name, "", additionalMappings)} :
    \E score \in {similarityScore(bankName, qbName)} :
        \/ 10 * score.num > 6 * score.den
        \/ (bankName = qbName /\ bankName # "")

\* The ledger types a bank category is compatible with.
AllowedTypes(bankType) ==
    IF bankType = "Deposit"
    THEN {"Deposit", "Payment", "Sales Receipt", "Invoice Payment"}
    ELSE IF bankType = "Withdrawal"
    THEN {"Check", "Bill Pmt -Check", "Transfer", "Expense", "Credit Card"}
    ELSE {}

\* The ledger records that pass 6 filtered for the bank record of the last
\* scan: those that were unmatched when it was scanned, within 3 days, of
\* equal amount and of a compatible type.
VendorFiltered ==
    {q \in 1..Len(qbTransactions) :
        /\ ~qbTransactions[q].matched \/ scan.committed = <<q>>
        /\ HoursApart(scan.bankIdx, q) <= 3 * HoursPerDay
        /\ AmountGap(scan.bankIdx, q) = 0
        /\ qbTransactions[q].type \in AllowedTypes(bankTransactions[scan.bankIdx].type)}

\* C13: pass 6 takes the first qualifying candidate: for a bank record it
\* scans, the ledger record matched is the first one in ledger-list order
\* among the filtered candidates that meets the name rule, whatever the
\* similarity of later candidates and however many qualify; nothing is
\* matched when none qualifies.
VendorTakesFirst ==
    (scan.pass = 6 /\ ~scan.skipped) =>
        LET qualifying == {q \in VendorFiltered : NameRule(scan.bankIdx, q)}
        IN  /\ {scan.candidates[k] : k \in 1..Len(scan.candidates)} = VendorFiltered
            /\ \A k, l \in 1..Len(scan.candidates) :
                  k < l => scan.candidates[k] < scan.candidates[l]
            /\ IF qualifying = {}
               THEN /\ scan.committed = <<>>
                    /\ ~bankTransactions[scan.bankIdx].matched
               ELSE /\ scan.committed =
                          <<CHOOSE q \in qualifying : \A r \in qualifying : q <= r>>
                    /\ matched[Len(matched)].bankIdx = scan.bankIdx
                    /\ matched[Len(matched)].qbIdx = scan.committed

\* Pass 6 has matched a candidate although a later candidate also meets the
\* name rule and has a strictly higher similarity.
VendorFirstWitness ==
    /\ scan.pass = 6
    /\ Len(scan.committed) = 1
    /\ \E q \in VendorFiltered :
          /\ q > scan.committed[1]
          /\ NameRule(scan.bankIdx, q)
          /\ \E bankName \in {BankVendorNorm(scan.bankIdx)} :
             \E taken \in {similarityScore(bankName, QBVendorNorm(scan.committed[1]))} :
             \E later \in {similarityScore(bankName, QBVendorNorm(q))} :
                later.num * taken.den > taken.num * later.den

\* C14: every Vendor+Type match pairs a bank record with a ledger record
\* within 3 days, of exactly equal amount, of a type in the allow-list of
\* the bank category, whose normalized names have similarity strictly
\* greater than 0.6 or are equal and non-empty; neither normalized name is
\* empty.
VendorMatchesSatisfyRule ==
    \A m \in 1..Len(matched) :
        PassOfTag(matched[m].matchType) = 6 =>
            \E b \in {matched[m].bankIdx} : \E q \in {matched[m].qbIdx[1]} :
                /\ Len(matched[m].qbIdx) = 1
                /\ HoursApart(b, q) <= 3 * HoursPerDay
                /\ AmountGap(b, q) = 0
                /\ qbTransactions[q].type \in AllowedTypes(bankTransactions[b].type)
                /\ NameRule(b, q)
                /\ normalizeVendor(bankTransactions[b].vendor,
                                   bankTransactions[b].description, additionalMappings) # ""
                /\ normalizeVendor(qbTransactions[q].name, "", additionalMappings) # ""

\* Pass 6 has passed over a first candidate whose normalized name differs
\* from the bank record's and has similarity exactly 0.6 to it, and has
\* matched the next one.
VendorRuleWitness ==
    /\ scan.pass = 6
    /\ Len(scan.candidates) >= 2
    /\ scan.committed = <<scan.candidates[2]>>
    /\ \E score \in {similarityScore(BankVendorNorm(scan.bankIdx),
                                     QBVendorNorm(scan.candidates[1]))} :
          10 * score.num = 6 * score.den

\* C15: in every pass a Deposit bank record is matched only to ledger
\* records with debit > 0 and a Withdrawal bank record only to ledger
\* records with credit > 0: a ledger record whose side for the bank
\* category is zero is never consumed by a match.
MatchedOnOwnSide ==
    \A m \in 1..Len(matched) : \A k \in 1..Len(matched[m].qbIdx) :
        /\ bankTransactions[matched[m].bankIdx].type = "Deposit" =>
              qbTransactions[matched[m].qbIdx[k]].debit > 0
        /\ bankTransactions[matched[m].bankIdx].type = "Withdrawal" =>
              qbTransactions[matched[m].qbIdx[k]].credit > 0

\* C16: isWithinDays(d1, d2, n) holds exactly when the calendar days of d1
\* and d2 differ by at most n, for dates with different times of day and
\* for local midnights on both sides of a daylight-saving shift; and two
\* dates on the same calendar day are within every window.
WithinDaysIsCalendarWindow ==
    (call.op = "isWithinDays" /\ value.returned) =>
        /\ value.value.isWithinDays <=>
              Abs(CalendarDay(call.args[1]) - CalendarDay(call.args[2])) <= call.args[3]
        /\ value.value.isSameDay => value.value.isWithinDays

\* C17: the similarity of any two strings lies in [0, 1]; it is 1 for two
\* equal non-empty strings, also when they differ only in letter case; it
\* is 0 when either string is empty, also when both are.
SimilarityBounds ==
    (call.op = "similarityScore" /\ value.returned) =>
        /\ value.value.den > 0
        /\ 0 <= value.value.num
        /\ value.value.num <= value.value.den
        /\ (call.args[1] # "" /\ toUpperCase(call.args[1]) = toUpperCase(call.args[2])) =>
              value.value.num = value.value.den
        /\ (call.args[1] = "" \/ call.args[2] = "") => value.value.num = 0

\* similarityScore has returned 1 for two different strings that are equal
\* up to letter case.
SimilarityBoundsWitness ==
    /\ call.op = "similarityScore"
    /\ value.returned
    /\ call.args[1] # call.args[2]
    /\ Len(call.args[1]) = MaxLen
    /\ toUpperCase(call.args[1]) = toUpperCase(call.args[2])
    /\ value.value.num = value.value.den

\* The classic edit distance of two strings: the least number of
\* insertions, deletions and substitutions of one character that turn one
\* into the other.
RECURSIVE EditDistance(_, _)
EditDistance(a, b) ==
    IF a = "" THEN Len(b)
    ELSE IF b = "" THEN Len(a)
    ELSE LET substitute == EditDistance(Tail(a), Tail(b))
                              + (IF SubSeq(a, 1, 1) = SubSeq(b, 1, 1) THEN 0 ELSE 1)
             delete == EditDistance(Tail(a), b) + 1
             insert == EditDistance(a, Tail(b)) + 1
         IN  CHOOSE d \in {substitute, delete, insert} :
                \A e \in {substitute, delete, insert} : d <= e

\* The upper-case form of a string over the letters of the calls.
Capitals(s) == [k \in 1..Len(s) |-> IF SubSeq(s, k, k) = "a" THEN "A" ELSE SubSeq(s, k, k)]

\* The sequence of characters as a string.
RECURSIVE Spell(_)
Spell(chars) == IF chars = <<>> THEN "" ELSE Head(chars) \o Spell(Tail(chars))

\* C18: for non-empty strings that are not identical, similarity(a, b) is
\* (L - d) / L with L the length of the longer string and d the classic
\* Levenshtein distance of the upper-cased strings; levenshteinDistance
\* returns the classic distance for every pair of strings; and the score of
\* (a, b) is the score of (b, a).
SimilarityIsLevenshtein ==
    /\ (call.op = "levenshteinDistance" /\ value.returned) =>
          value.value = EditDistance(call.args[1], call.args[2])
    /\ (call.op = "similarityScore" /\ value.returned) =>
          \E a \in {Spell(Capitals(call.args[1]))} :
          \E b \in {Spell(Capitals(call.args[2]))} :
          \E L \in {IF Len(a) >= Len(b) THEN Len(a) ELSE Len(b)} :
              /\ (a # "" /\ b # "" /\ a # b) =>
                    value.value.num * L = (L - EditDistance(a, b)) * value.value.den
              /\ value.value = similarityScore(call.args[2], call.args[1])

\* similarityScore has returned a score strictly between 0 and 1 for two
\* strings of different lengths, the shorter one holding a small letter.
SimilarityLevenshteinWitness ==
    /\ call.op = "similarityScore"
    /\ value.returned
    /\ Len(call.args[1]) < Len(call.args[2])
    /\ toUpperCase(call.args[1]) # call.args[1]
    /\ 0 < value.value.num
    /\ value.value.num < value.value.den

\* A single token: a non-empty string without whitespace.
SingleToken(s) == s # "" /\ \A k \in 1..Len(s) : ~IsSpace(SubSeq(s, k, k))

\* C19: normalization is idempotent on single tokens: when normalize(x),
\* called with or without a description, returns a single token y, then
\* normalize(y) = y.
NormalizationIdempotent ==
    (call.op = "normalizeVendor" /\ value.returned /\ SingleToken(value.value.normalized)) =>
        value.value.again = value.value.normalized

\* A call that returned a single token which normalizes to itself.
NormalizationIdempotentWitness ==
    /\ call.op = "normalizeVendor"
    /\ value.returned
    /\ SingleToken(value.value.normalized)
    /\ value.value.again = value.value.normalized
    /\ value.value.normalized # toUpperCase(call.args[1])

\* Names of payees, and what follows the name in a description: nothing or
\* a JPM token.
PeerNames == {"JOHN SMITH", "KATRINA OHANYAN", "CITIBANK"}

PeerTails == {"", " JPM99A1"}

\* The characters of s before its first blank.
FirstToken(s) ==
    IF \E k \in 1..Len(s) : SubSeq(s, k, k) = " "
    THEN SubSeq(s, 1, (CHOOSE k \in 1..Len(s) :
                          /\ SubSeq(s, k, k) = " "
                          /\ \A j \in 1..(k - 1) : SubSeq(s, j, j) # " ") - 1)
    ELSE s

\* The bank record b is a peer payment to or from JOHN SMITH.
PeerPaymentOfJohn(b) ==
    /\ trim(toUpperCase(bankTransactions[b].vendor)) = "ZELLE"
    /\ \E keyword \in {"TO", "FROM"}, tail \in PeerTails :
          toUpperCase(bankTransactions[b].description)
              = "ZELLE PAYMENT " \o keyword \o " JOHN SMITH" \o tail

\* C20: when the trimmed, upper-cased vendor is ZELLE and the upper-cased
\* description is ZELLE PAYMENT TO <NAME> or ZELLE PAYMENT FROM <NAME>,
\* followed by a JPM token or by nothing, normalize returns the first word
\* of NAME as it stands, neither mapped by the table nor stripped; and when
\* pass 6 scans such a payment of JOHN SMITH and a ledger record named JOHN
\* SMITH is among its filtered candidates, it commits a match, and the match
\* with that ledger record is tagged 100% similar.
PeerTransferException ==
    /\ (call.op = "normalizeVendor" /\ value.returned
            /\ trim(toUpperCase(call.args[1])) = "ZELLE") =>
          \A keyword \in {"TO", "FROM"}, name \in PeerNames, tail \in PeerTails :
              toUpperCase(call.args[2]) = "ZELLE PAYMENT " \o keyword \o " " \o name \o tail
                  => value.value.normalized = FirstToken(name)
    /\ (scan.pass = 6 /\ ~scan.skipped /\ PeerPaymentOfJohn(scan.bankIdx)) =>
          LET johns == {q \in VendorFiltered : toUpperCase(qbTransactions[q].name) = "JOHN SMITH"}
          IN  johns # {} =>
                /\ Len(scan.committed) = 1
                /\ bankTransactions[scan.bankIdx].matched
                /\ \A q \in johns : scan.committed[1] <= q
                /\ matched[Len(matched)].bankIdx = scan.bankIdx
                /\ matched[Len(matched)].qbIdx = scan.committed
                /\ scan.committed[1] \in johns =>
                      matched[Len(matched)].matchType = "Vendor+Type (100% similar)"

\* Pass 6 has matched a peer payment of JOHN SMITH, whose description ends
\* in a JPM token, with the ledger record named John Smith two days later,
\* after passing over a candidate of another name.
PeerTransferWitness ==
    /\ scan.pass = 6
    /\ ~scan.skipped
    /\ PeerPaymentOfJohn(scan.bankIdx)
    /\ bankTransactions[scan.bankIdx].description # "ZELLE PAYMENT FROM JOHN SMITH"
    /\ Len(scan.candidates) >= 2
    /\ scan.committed = <<scan.candidates[2]>>
    /\ qbTransactions[scan.committed[1]].name = "John Smith"
    /\ matched[Len(matched)].matchType = "Vendor+Type (100% similar)"

\* The entries of a table one of whose fragments occurs in the string.
EntriesIn(normalized, mappings) ==
    {k \in 1..Len(mappings) :
        \E v \in 1..Len(mappings[k].variants) : includes(normalized, mappings[k].variants[v])}

\* C21: mappings handed to the constructor extend the built-in table and
\* never shadow it: when they hold a key of the built-in table, a vendor that
\* contains a built-in fragment of that key, and no fragment of any other
\* key, is still normalized to that key.
ExternalSynonymsExtend ==
    (call.op = "normalizeVendor" /\ value.returned) =>
        \A k \in 1..Len(BaseMappings) :
            \E normalized \in {trim(toUpperCase(call.args[1]))} :
                ( /\ \E e \in 1..Len(additionalMappings) :
                        additionalMappings[e].key = BaseMappings[k].key
                  /\ EntriesIn(normalized, BaseMappings) = {k}
                  /\ \A e \in EntriesIn(normalized, additionalMappings) :
                        additionalMappings[e].key = BaseMappings[k].key )
                => value.value.normalized = BaseMappings[k].key

\* C22: for a vendor without a fragment of the table, made of one of the
\* literal prefixes ORIG CO NAME:, PAYMENT TO, ZELLE PAYMENT TO, ZELLE
\* PAYMENT FROM and a name, normalize returns the first word of the
\* upper-cased name: ZELLE PAYMENT TO John gives JOHN and ORIG CO NAME: ABC
\* Corp gives ABC.
PrefixesAreStripped ==
    (call.op = "normalizeVendor" /\ value.returned
        /\ EntriesIn(toUpperCase(call.args[1]), BaseMappings) = {}) =>
        \A prefix \in {"ORIG CO NAME:", "PAYMENT TO", "ZELLE PAYMENT TO", "ZELLE PAYMENT FROM"} :
        \A blank \in {"", " "}, rest \in VendorRests :
            toUpperCase(call.args[1]) = prefix \o blank \o toUpperCase(rest)
                => value.value.normalized = FirstToken(toUpperCase(rest))

\* One step of match(): within a pass the loop scans the next bank record
\* and commits at most one match; a pass ends only after the last bank
\* record and hands over to the next pass, which starts at the first one;
\* no pass is entered twice.
ScansInOrder ==
    /\ pass' >= pass
    /\ pass' = pass =>
          /\ i <= Len(bankTransactions)
          /\ i' = i + 1
          /\ scan'.pass = pass
          /\ scan'.bankIdx = i
          /\ Len(matched') <= Len(matched) + 1
    /\ pass' # pass =>
          /\ pass' = pass + 1
          /\ matched' = matched
          /\ pass <= 6 => (i = Len(bankTransactions) + 1 /\ i' = 1)

\* C23: for any bank and ledger lists match() runs the six passes to the
\* end and returns a result: every pass scans each bank record once, a scan
\* commits at most one match (the split search stops at its first
\* qualifying subset), and no step goes back to an earlier pass or record.
MatchRunsToCompletion ==
    /\ <>(pass = 8 /\ result.returned)
    /\ [][ScansInOrder]_vars

\* match() has returned with a match and with a bank record that stayed
\* unmatched.
MatchCompletionWitness ==
    /\ pass = 8
    /\ result.returned
    /\ Len(result.matched) >= 1
    /\ Len(result.unmatchedBank) >= 1
    /\ Len(result.unmatchedQB) >= 2

\* The process-reconciliation invocations that the renderer still waits for.
InFlight == At("process-reconciliation", {"sent", "replied", "rejected"})

\* C24: after any sequence of file selections, cancelled selections and
\* reconciliation runs the Match Transactions button is enabled exactly when
\* a bank file and a QuickBooks file are selected and no reconciliation is
\* in progress, and at most one reconciliation is in flight.
ProcessButtonState ==
    /\ ~renderer.processBtnDisabled <=>
          (renderer.bankFilePath # Null /\ renderer.qbFilePath # Null /\ InFlight = {})
    /\ Cardinality(InFlight) <= 1
    /\ renderer.isProcessing <=> InFlight # {}

\* A reconciliation has run and a second one is in flight while a file
\* dialog is open: the button is disabled with both files selected.
ProcessButtonWitness ==
    /\ renderer.lastResultsFolder # Null
    /\ InFlight # {}
    /\ At("select-bank-file", {"sent"}) # {}
    /\ renderer.bankFilePath # Null
    /\ renderer.qbFilePath # Null
    /\ renderer.processBtnDisabled

\* C25: every bank record that parseBankCSV returns has the category
\* Deposit or Withdrawal: rows of type Fee, of any other type and without a
\* type are not passed on.
BankRecordsAreTyped ==
    (call.op = "parseBankCSV" /\ value.returned) =>
        \A k \in 1..Len(value.value) : value.value[k].type \in {"Deposit", "Withdrawal"}

\* The unmatched ledger records that satisfy the predicate of pass p for the
\* bank record b.
OpenCandidates(p, b) ==
    {q \in 1..Len(qbTransactions) :
        ~qbTransactions[q].matched /\ SatisfiesPass(p, b, q, {})}

\* The ledger records that satisfy the predicate of pass p for the bank
\* record b and that pass p matched to a bank record later in the list.
TakenLater(p, b) ==
    {q \in 1..Len(qbTransactions) :
        /\ SatisfiesPass(p, b, q, {})
        /\ \E m \in 1..Len(matched) :
              /\ PassOfTag(matched[m].matchType) = p
              /\ matched[m].bankIdx > b
              /\ matched[m].qbIdx = <<q>>}

\* Pass 1, 2, 3 or 5 has scanned the whole bank list.
PassFinished == pass \in {1, 2, 3, 5} /\ i > Len(bankTransactions)

\* C26 as stated: when pass 1, 2, 3 or 5 finishes, no unmatched bank record
\* has exactly one unmatched ledger record that satisfies the pass's
\* predicate.
NoUniqueCandidateLeft ==
    PassFinished =>
        \A b \in 1..Len(bankTransactions) :
            ~bankTransactions[b].matched => Cardinality(OpenCandidates(pass, b)) # 1

\* C26: when pass 1, 2, 3 or 5 finishes, an unmatched bank record has
\* exactly one unmatched ledger record that satisfies the pass's predicate
\* only if the pass matched a bank record later in the list to another
\* ledger record that satisfied the predicate for it too.
UniqueCandidateLeftByLaterCommit ==
    PassFinished =>
        \A b \in 1..Len(bankTransactions) :
            (~bankTransactions[b].matched /\ Cardinality(OpenCandidates(pass, b)) = 1)
                => TakenLater(pass, b) # {}

\* Pass 2 has finished and has left the first bank record unmatched with
\* one candidate, after it matched the second bank record to the other.
UniqueCandidateLeftWitness ==
    /\ PassFinished
    /\ pass = 2
    /\ Len(bankTransactions) = 2
    /\ ~bankTransactions[1].matched
    /\ Cardinality(OpenCandidates(2, 1)) = 1
    /\ bankTransactions[2].matched

\* The two matchers have returned from match().
BothReturned == others # <<>> /\ pass = 8 /\ others[1].pass = 8

\* A pair without the positions of its bank record in the list.
Unplaced(pair) == [f \in (DOMAIN pair) \ {"bankIdx"} |-> pair[f]]

\* What match() of the matcher m produced: the matches as a set, with the
\* bank record, the consumed ledger records and the pass of each, and the
\* two sets of unmatched records.
Outcome(m) ==
    [matches |-> {Unplaced(m.matched[k]) : k \in 1..Len(m.matched)},
     unmatchedBank |-> {m.bankTransactions[m.result.unmatchedBank[k]] :
                           k \in 1..Len(m.result.unmatchedBank)},
     unmatchedQB |-> {m.result.unmatchedQB[k] : k \in 1..Len(m.result.unmatchedQB)}]

NoSharedCandidate ==
    \A q \in 1..Len(qbTransactions) :
        Cardinality({b \in 1..Len(bankTransactions) :
            isWithinDays(bankTransactions[b].date, qbTransactions[q].date, 7)}) <= 1

ReturnedAgain == pass = 8 /\ caller.results # <<>>

\* The elements of a sequence.
Elements(s) == {s[k] : k \in 1..Len(s)}

\* C28 as stated: a second call of match() on the instance commits no match
\* and returns the same matches, unmatchedBank, unmatchedQB and matchRate
\* as the first call.
MatchIsIdempotent == ReturnedAgain => result = caller.results[1]

\* C28: a second call of match() on the instance keeps the matches of the
\* first call at the head of the match list, adds only matches of records
\* that the first call returned as unmatched, and returns the result of the
\* first call when that left no bank record or no ledger record unmatched.
MatchAgainExtends ==
    ReturnedAgain =>
        LET first == caller.results[1]
        IN  /\ Len(result.matched) >= Len(first.matched)
            /\ SubSeq(result.matched, 1, Len(first.matched)) = first.matched
            /\ \A k \in (Len(first.matched) + 1)..Len(result.matched) :
                  /\ result.matched[k].bankIdx \in Elements(first.unmatchedBank)
                  /\ Elements(result.matched[k].qbIdx) \subseteq Elements(first.unmatchedQB)
            /\ (first.unmatchedBank = <<>> \/ first.unmatchedQB = <<>>) => result = first

\* The second call has returned with a match more than the first, which had
\* committed one.
MatchAgainWitness ==
    /\ ReturnedAgain
    /\ Len(caller.results[1].matched) = 1
    /\ Len(result.matched) = 2

\* The lists that the callers passed to the constructors.
InputLists == {[bank |-> caller.bank, qb |-> caller.qb]} \cup {others[k].of : k \in 1..Len(others)}

\* The two matchers were built from the same records in the same order, the
\* matched flags of the inputs aside.
SameInput ==
    /\ others # <<>>
    /\ Flagged(others[1].of.bank, FALSE) = Flagged(caller.bank, FALSE)
    /\ Flagged(others[1].of.qb, FALSE) = Flagged(caller.qb, FALSE)

RepliesAreOutcomes ==
    \A k \in At("process-reconciliation", {"replied"}) :
        IF ipc[k].reply.success
        THEN ipc[k].reply.outputDir \in OutputDirs /\ lastResults # Null
        ELSE ipc[k].reply.error # Null

====
